---------------------------- MODULE Spec2Model ----------------------------
(***************************************************************************)
(* A model of the `rds connect` command of PraveenPrabhuT/rds:             *)
(* internal/connect (Run, GetInstancesWithCache, findByName,               *)
(* loadLastConnected, getRDSCredentials, startAndWait, ...).               *)
(*                                                                         *)
(* One invocation of the command walks through the statements of Run; the  *)
(* cache directory (instance cache files, last-selection files), the wall  *)
(* clock and the terminal outlive an invocation.  Strings the code         *)
(* inspects (identifiers, replication sources) are sequences of symbols,   *)
(* so that ==, strings.Contains, strings.HasPrefix and strings.Split are   *)
(* computed and not assumed.  Filesystem and ioctl calls whose errors the  *)
(* code discards are modelled on their successful outcome.                 *)
(***************************************************************************)
EXTENDS Integers, Sequences, FiniteSets, TLC

(***************************************************************************)
(* Bounds of the model.                                                    *)
(***************************************************************************)
\* longest DescribeDBInstances response
MaxFleet == 2
\* the clock advances in steps of Tick seconds, up to MaxNow
Tick == 1800
MaxNow == 5400
\* the invocations of the command a behaviour holds
MaxRuns == 2
\* longest instance list the selection is applied to on its own
MaxList == 3

(***************************************************************************)
(* Program constants.                                                      *)
(***************************************************************************)
\* time.Hour, in seconds
Hour == 3600
CacheVersion == "v2"
\* the index of the resource identifier among the colon fields, zero-based
ARNResourceField == 6
ARNMinFields == 7

(***************************************************************************)
(* Strings as sequences of symbols.                                        *)
(***************************************************************************)
EmptyStr == <<>>

\* strings.HasPrefix(s, prefix)
HasPrefix(s, prefix) ==
  /\ Len(prefix) <= Len(s)
  /\ SubSeq(s, 1, Len(prefix)) = prefix

\* a variant that finds the substring at the start of the string only
ContainsAsPrefix(s, substr) ==
  /\ Len(substr) <= Len(s)
  /\ SubSeq(s, 1, Len(substr)) = substr

\* strings.Contains(s, substr); the empty string is contained in every string
Contains(s, substr) ==
  \E i \in 1..(Len(s) + 1) :
     /\ i + Len(substr) - 1 <= Len(s)
     /\ SubSeq(s, i, i + Len(substr) - 1) = substr

\* strings.Split(s, sep) for a one-symbol separator: the fields between the
\* separators, always at least one field
RECURSIVE Split(_, _)
Split(s, sep) ==
  IF \A i \in 1..Len(s) : s[i] # sep
    THEN <<s>>
    ELSE LET k == CHOOSE i \in 1..Len(s) :
                     /\ s[i] = sep
                     /\ \A j \in 1..(i - 1) : s[j] # sep
         IN  <<SubSeq(s, 1, k - 1)>> \o Split(SubSeq(s, k + 1, Len(s)), sep)

(***************************************************************************)
(* Go errors: a format and its arguments; the nil error has no format.     *)
(***************************************************************************)
NilErr == [fmt |-> "", args |-> <<>>]
Errorf(f, a) == [fmt |-> f, args |-> a]
IsErr(e) == e.fmt # ""

(***************************************************************************)
(* The fleet the discovery collaborator may report.                        *)
(***************************************************************************)
\* *types.Endpoint: nil while an instance is being created
NoEndpoint == [present |-> FALSE, Address |-> EmptyStr, Port |-> 0]
EndpointOf(host) == [present |-> TRUE, Address |-> host, Port |-> 5432]

MasterARN ==
  <<"arn", ":", "aws", ":", "rds", ":", "ap-south-1", ":", "123456789012",
    ":", "db", ":", "a">>

DB(id, engine, endpoint, source) ==
  [DBInstanceIdentifier |-> id, Engine |-> engine, Endpoint |-> endpoint,
   DBInstanceClass |-> "db.t3.micro", EngineVersion |-> "15",
   ReadReplicaSourceDBInstanceIdentifier |-> source]

DBInstancesUniverse ==
  { DB(<<"a">>, "postgres", EndpointOf(<<"a", ".rds">>), EmptyStr),
    DB(<<"a", "b">>, "postgres", EndpointOf(<<"a", "b", ".rds">>), EmptyStr),
    DB(<<"b", "a">>, "postgres", EndpointOf(<<"b", "a", ".rds">>), MasterARN),
    DB(<<"b">>, "mysql", EndpointOf(<<"b", ".rds">>), EmptyStr),
    DB(<<"c">>, "postgres", NoEndpoint, EmptyStr) }

\* DescribeDBInstancesOutput.DBInstances: identifiers are unique in a region
RECURSIVE DistinctSeqs(_, _)
DistinctSeqs(S, n) ==
  IF n = 0 THEN { <<>> }
  ELSE LET shorter == DistinctSeqs(S, n - 1)
       IN  shorter \cup
           { Append(s, x) : s \in { t \in shorter : Len(t) = n - 1 },
                            x \in S }

DescribeResponses ==
  { s \in DistinctSeqs(DBInstancesUniverse, MaxFleet) :
      \A i, j \in 1..Len(s) : i # j => s[i] # s[j] }

\* Options.Args[0] as typed by the user
Names == { <<"a">>, <<"b">>, <<"z">> }

\* the words the shell asks completions for
CompletionWords == { EmptyStr, <<"a">> }

Profiles == { "ackodev" }
\* the profiles of the shared AWS configuration: one more, unknown to
\* vpnProfileMapping and configured with another region
ConfiguredProfiles == Profiles \cup { "sandbox" }
\* Options.Region: "" when no --region is given
RegionFlags == { "", "us-east-1" }
\* the region of each profile in the shared AWS configuration
ProfileRegion == [ p \in ConfiguredProfiles |->
                     IF p = "ackodev" THEN "ap-south-1" ELSE "us-east-1" ]
RegionNames == { "ap-south-1", "us-east-1" }


(***************************************************************************)
(* InstanceInfo, CacheEnvelope and their JSON encoding.                    *)
(***************************************************************************)
InstanceInfo(id, host, size, port, version, source) ==
  [ID |-> id, Host |-> host, Size |-> size, Port |-> port,
   Version |-> version, SourceID |-> source]

\* the zero value InstanceInfo{}
ZeroInstance == InstanceInfo(EmptyStr, EmptyStr, "", 0, "", EmptyStr)

\* the InstanceInfo literal built from one DBInstance of the response
InstanceOfDB(db) ==
  InstanceInfo(db.DBInstanceIdentifier, db.Endpoint.Address,
               db.DBInstanceClass, db.Endpoint.Port, db.EngineVersion,
               db.ReadReplicaSourceDBInstanceIdentifier)

CacheEnvelope(version, insts) == [Version |-> version, Instances |-> insts]

\* the struct tags of InstanceInfo
MarshalInstance(i) ==
  [id |-> i.ID, host |-> i.Host, size |-> i.Size, port |-> i.Port,
   version |-> i.Version, source_id |-> i.SourceID]

\* a variant whose decoder does not know the key "source_id"
UnmarshalInstanceNoSource(j) ==
  InstanceInfo(j.id, j.host, j.size, j.port, j.version, EmptyStr)

UnmarshalInstance(j) ==
  InstanceInfo(j.id, j.host, j.size, j.port, j.version, j.source_id)

\* json.Marshal of a CacheEnvelope: an object with the keys "version" and
\* "instances"; a slice nothing was appended to is nil and encodes as null
Marshal(envelope) ==
  [shape |-> "object",
   version |-> envelope.Version,
   instances |->
     [null |-> Len(envelope.Instances) = 0,
      items |-> [k \in 1..Len(envelope.Instances) |->
                   MarshalInstance(envelope.Instances[k])]]]

\* json.Unmarshal into a CacheEnvelope: fails unless the text is an object
UnmarshalOK(data) == data.shape = "object"

Unmarshal(data) ==
  CacheEnvelope(data.version,
                IF data.instances.null
                  THEN <<>>
                  ELSE [k \in 1..Len(data.instances.items) |->
                          UnmarshalInstance(data.instances.items[k])])

\* what json.Unmarshal rejects: a truncated or foreign file
TruncatedText == [shape |-> "garbage", version |-> "",
                  instances |-> [null |-> TRUE, items |-> <<>>]]

\* the envelope a build with an earlier schema version left behind
OlderBuildText ==
  [shape |-> "object", version |-> "v1",
   instances |-> [null |-> FALSE,
                  items |-> << [id |-> <<"a">>, host |-> <<"a", ".rds">>,
                                size |-> "db.t3.micro", port |-> 5432,
                                version |-> "14", source_id |-> EmptyStr] >>]]

(***************************************************************************)
(* The cache directory: one instance file per profile and region, one      *)
(* last-selection file per profile.                                        *)
(***************************************************************************)
\* fmt.Sprintf("%s_%s_instances.json", profile, cfg.Region)
CacheFileName(profile, region) == <<profile, "_", region, "_instances.json">>

\* fmt.Sprintf("%s_last_connected", profile)
LastFileName(profile) == <<profile, "_last_connected">>

CacheFileNames == { CacheFileName(p, r) : p \in Profiles, r \in RegionNames }
LastFileNames == { LastFileName(p) : p \in Profiles }

NoCacheFile == [exists |-> FALSE, data |-> TruncatedText, mtime |-> 0]
NoLastFile == [exists |-> FALSE, data |-> EmptyStr]

\* a variant that still serves a file modified exactly an hour ago
CacheUsableInclusive(envelope, age) ==
  /\ envelope.Version = CacheVersion
  /\ age <= Hour

\* a cached envelope is served only with the current schema version and a
\* file modified less than an hour ago
CacheUsable(envelope, age) ==
  /\ envelope.Version = CacheVersion
  /\ age < Hour

\* a variant of the loop without the test of the engine
RECURSIVE FilterAllEngines(_)
FilterAllEngines(dbs) ==
  IF dbs = <<>> THEN <<>>
  ELSE <<InstanceOfDB(Head(dbs))>> \o FilterAllEngines(Tail(dbs))

\* the loop over out.DBInstances: the postgres instances, in response order
RECURSIVE FilterPostgres(_)
FilterPostgres(dbs) ==
  IF dbs = <<>> THEN <<>>
  ELSE IF Head(dbs).Engine = "postgres"
         THEN <<InstanceOfDB(Head(dbs))>> \o FilterPostgres(Tail(dbs))
         ELSE FilterPostgres(Tail(dbs))

\* *db.Endpoint.Port on a postgres instance without endpoint is a nil
\* pointer dereference
DereferencesNil(dbs) ==
  \E k \in 1..Len(dbs) :
     /\ dbs[k].Engine = "postgres"
     /\ ~dbs[k].Endpoint.present


(***************************************************************************)
(* The VPN check.                                                          *)
(***************************************************************************)
vpnProfileMapping ==
  [ p \in {"ackodev", "ackoprod", "ackolife", "ackodrive"} |->
      CASE p = "ackodev" -> <<"sso_ackodevvpnusers">>
        [] p = "ackoprod" -> <<"sso_ackoprodvpnusers">>
        [] p = "ackolife" -> <<"sso_ackolifevpnusers">>
        [] OTHER -> <<"sso_ackodrive_prod">> ]

PritunlConnection(name, connected) == [Name |-> name, Connected |-> connected]

ValidatePritunlConnections(conns, profile) ==
  LET exists == profile \in DOMAIN vpnProfileMapping
      requiredVPN == IF exists THEN vpnProfileMapping[profile] ELSE EmptyStr
  IN  IF \E k \in 1..Len(conns) :
            \/ exists /\ Contains(conns[k].Name, requiredVPN)
                      /\ conns[k].Connected
            \/ ~exists /\ conns[k].Connected
        THEN NilErr
        ELSE IF exists
               THEN Errorf("required VPN profile '%s' is not connected",
                           <<requiredVPN>>)
               ELSE Errorf("no active VPN connection found", <<>>)

\* what the Pritunl client may answer: the binary is missing, the command
\* fails, its output is no JSON list, or it lists connections
PritunlAnswers ==
  { [installed |-> FALSE, ran |-> FALSE, parsed |-> FALSE, conns |-> <<>>],
    [installed |-> TRUE, ran |-> FALSE, parsed |-> FALSE, conns |-> <<>>],
    [installed |-> TRUE, ran |-> TRUE, parsed |-> FALSE, conns |-> <<>>] }
  \cup
  { [installed |-> TRUE, ran |-> TRUE, parsed |-> TRUE, conns |-> c] :
      c \in { <<>>,
              <<PritunlConnection(<<"acko-", "sso_ackodevvpnusers">>, TRUE)>>,
              <<PritunlConnection(<<"acko-", "sso_ackodevvpnusers">>, FALSE)>>,
              <<PritunlConnection(<<"office">>, TRUE)>> } }

CheckVPNWithPritunl(profile, answer) ==
  IF ~answer.installed THEN NilErr
  ELSE IF ~answer.ran THEN NilErr
  ELSE IF ~answer.parsed THEN NilErr
  ELSE ValidatePritunlConnections(answer.conns, profile)

(***************************************************************************)
(* The AWS configuration.                                                  *)
(***************************************************************************)
\* awsconfig.LoadDefaultConfig with the profile and, when given, WithRegion:
\* an explicit region wins over the region of the profile
LoadDefaultConfig(profile, withRegion) ==
  [Region |-> IF withRegion # "" THEN withRegion ELSE ProfileRegion[profile]]

\* a variant that loads the home configuration without WithRegion
HomeRegionOfProfile(profile) == LoadDefaultConfig(profile, "").Region

\* the region loadAWSConfig returns as homeRegion
HomeRegionOf(profile) == LoadDefaultConfig(profile, "ap-south-1").Region

\* the operating configuration loadAWSConfig returns as cfg: WithRegion is
\* appended only for a non-empty region
OperatingConfig(profile, region) == LoadDefaultConfig(profile, region)

NoConfig == [Region |-> ""]

(***************************************************************************)
(* Selection.                                                              *)
(***************************************************************************)
\* what a selection function hands back: the instance and the error, with
\* the candidate lists it opened the picker on and the calls it made
Selection(inst, err, shown, calls) ==
  [inst |-> inst, err |-> err, shown |-> shown, calls |-> calls]

\* the answers the user can give to the picker over a candidate list: an
\* index into it, or an abort
Abort == [abort |-> TRUE, idx |-> 0]
PickerAnswers(candidates) ==
  { Abort } \cup
  { [abort |-> FALSE, idx |-> k] : k \in 0..(Len(candidates) - 1) }

ErrAbort == Errorf("abort", <<>>)

pickWithFuzzyFinder(insts, answer) ==
  IF answer.abort
    THEN Selection(ZeroInstance, ErrAbort, <<insts>>,
                   <<"pickWithFuzzyFinder">>)
    ELSE Selection(insts[answer.idx + 1], NilErr, <<insts>>,
                   <<"pickWithFuzzyFinder">>)

\* a variant that collects the matches in front of the earlier ones
RECURSIVE SubstringMatchesReversed(_, _)
SubstringMatchesReversed(insts, name) ==
  IF insts = <<>> THEN <<>>
  ELSE IF Contains(Head(insts).ID, name)
         THEN SubstringMatchesReversed(Tail(insts), name) \o <<Head(insts)>>
         ELSE SubstringMatchesReversed(Tail(insts), name)

\* the second loop of findByName: the instances whose ID contains the name
RECURSIVE SubstringMatches(_, _)
SubstringMatches(insts, name) ==
  IF insts = <<>> THEN <<>>
  ELSE IF Contains(Head(insts).ID, name)
         THEN <<Head(insts)>> \o SubstringMatches(Tail(insts), name)
         ELSE SubstringMatches(Tail(insts), name)

\* the call of the picker at the end of findByName
PickAmong(matches, answer) ==
  LET r == pickWithFuzzyFinder(matches, answer)
  IN  Selection(r.inst, r.err, r.shown, <<"findByName">> \o r.calls)

\* a variant without the first loop: no pass for the exact identifier
findByNameNoExactPass(insts, name, answer) ==
  LET matches == SubstringMatches(insts, name)
  IN  IF Len(matches) = 1
        THEN Selection(matches[1], NilErr, <<>>, <<"findByName">>)
        ELSE IF Len(matches) > 1
               THEN PickAmong(matches, answer)
               ELSE Selection(ZeroInstance,
                              Errorf("no instance matching '%s'", <<name>>),
                              <<>>, <<"findByName">>)

\* a variant that opens the picker on the whole list when nothing matches
findByNamePicksOnNoMatch(insts, name, answer) ==
  IF \E k \in 1..Len(insts) : insts[k].ID = name
    THEN LET first == CHOOSE k \in 1..Len(insts) :
                        /\ insts[k].ID = name
                        /\ \A j \in 1..(k - 1) : insts[j].ID # name
         IN  Selection(insts[first], NilErr, <<>>, <<"findByName">>)
    ELSE LET matches == SubstringMatches(insts, name)
         IN  IF Len(matches) = 1
               THEN Selection(matches[1], NilErr, <<>>, <<"findByName">>)
               ELSE IF Len(matches) > 1
                      THEN PickAmong(matches, answer)
                      ELSE PickAmong(insts, answer)

findByName(insts, name, answer) ==
  IF \E k \in 1..Len(insts) : insts[k].ID = name
    THEN LET first == CHOOSE k \in 1..Len(insts) :
                        /\ insts[k].ID = name
                        /\ \A j \in 1..(k - 1) : insts[j].ID # name
         IN  Selection(insts[first], NilErr, <<>>, <<"findByName">>)
    ELSE LET matches == SubstringMatches(insts, name)
         IN  IF Len(matches) = 1
               THEN Selection(matches[1], NilErr, <<>>, <<"findByName">>)
               ELSE IF Len(matches) > 1
                      THEN PickAmong(matches, answer)
                      ELSE Selection(ZeroInstance,
                                     Errorf("no instance matching '%s'", <<name>>),
                                     <<>>, <<"findByName">>)

\* strings.TrimSpace
IsSpace(c) == c \in { " ", "\n", "\t" }

RECURSIVE TrimLeft(_)
TrimLeft(s) ==
  IF s # <<>> /\ IsSpace(Head(s)) THEN TrimLeft(Tail(s)) ELSE s

RECURSIVE TrimRight(_)
TrimRight(s) ==
  IF s # <<>> /\ IsSpace(s[Len(s)])
    THEN TrimRight(SubSeq(s, 1, Len(s) - 1))
    ELSE s

TrimSpace(s) == TrimRight(TrimLeft(s))

\* a variant that takes the first instance whose identifier contains the
\* recorded one
loadLastConnectedBySubstring(insts, files, profile) ==
  LET path == LastFileName(profile)
      calls == <<"loadLastConnected", "ReadFile last">>
  IN  IF ~files[path].exists
        THEN Selection(ZeroInstance,
                       Errorf("no history found for profile '%s'", <<profile>>),
                       <<>>, calls)
        ELSE LET lastID == TrimSpace(files[path].data)
                 matches == SubstringMatches(insts, lastID)
             IN  IF matches # <<>>
                   THEN Selection(matches[1], NilErr, <<>>, calls)
                   ELSE Selection(ZeroInstance,
                                  Errorf("last used instance '%s' not found in current profile",
                                         <<lastID>>),
                                  <<>>, calls)

loadLastConnected(insts, files, profile) ==
  LET path == LastFileName(profile)
      calls == <<"loadLastConnected", "ReadFile last">>
  IN  IF ~files[path].exists
        THEN Selection(ZeroInstance,
                       Errorf("no history found for profile '%s'", <<profile>>),
                       <<>>, calls)
        ELSE LET lastID == TrimSpace(files[path].data)
             IN  IF \E k \in 1..Len(insts) : insts[k].ID = lastID
                   THEN LET first == CHOOSE k \in 1..Len(insts) :
                                       /\ insts[k].ID = lastID
                                       /\ \A j \in 1..(k - 1) :
                                             insts[j].ID # lastID
                        IN  Selection(insts[first], NilErr, <<>>, calls)
                   ELSE Selection(ZeroInstance,
                                  Errorf("last used instance '%s' not found in current profile",
                                         <<lastID>>),
                                  <<>>, calls)

\* a variant that looks at the "last" flag before the positional argument
SelectInstanceLastFirst(o, insts, files, answer) ==
  IF o.LastConnected
    THEN loadLastConnected(insts, files, o.Profile)
    ELSE IF Len(o.Args) > 0
           THEN findByName(insts, o.Args[1], answer)
           ELSE pickWithFuzzyFinder(insts, answer)

\* the if / else-if / else of Run that picks the selection function
SelectInstance(o, insts, files, answer) ==
  IF Len(o.Args) > 0
    THEN findByName(insts, o.Args[1], answer)
    ELSE IF o.LastConnected
           THEN loadLastConnected(insts, files, o.Profile)
           ELSE pickWithFuzzyFinder(insts, answer)

(***************************************************************************)
(* Credentials and the client's command line.                              *)
(***************************************************************************)
ARNPrefix == <<"arn", ":", "aws", ":", "rds", ":">>

\* a variant that takes the last field of the resource name
instanceSecretTargetIDLastField(sel) ==
  IF sel.SourceID = EmptyStr THEN sel.ID
  ELSE IF HasPrefix(sel.SourceID, ARNPrefix)
         THEN LET parts == Split(sel.SourceID, ":")
              IN  IF Len(parts) >= ARNMinFields
                    THEN parts[Len(parts)]
                    ELSE sel.ID
         ELSE sel.SourceID

\* a variant that follows a replication source only when it is a resource
\* name
instanceSecretTargetIDResourceNamesOnly(sel) ==
  IF HasPrefix(sel.SourceID, ARNPrefix)
    THEN LET parts == Split(sel.SourceID, ":")
         IN  IF Len(parts) >= ARNMinFields
               THEN parts[ARNResourceField + 1]
               ELSE sel.ID
    ELSE sel.ID

instanceSecretTargetID(sel) ==
  IF sel.SourceID = EmptyStr THEN sel.ID
  ELSE IF HasPrefix(sel.SourceID, ARNPrefix)
         THEN LET parts == Split(sel.SourceID, ":")
              IN  IF Len(parts) >= ARNMinFields
                    THEN parts[ARNResourceField + 1]
                    ELSE sel.ID
         ELSE sel.SourceID

\* fmt.Sprintf("root/%s/psql", secretTargetID)
SecretID(target) == <<"root/">> \o target \o <<"/psql">>

\* a variant whose client keeps the region of the operating configuration
SecretRequestInOperatingRegion(sel, config, home) ==
  [SecretId |-> SecretID(instanceSecretTargetID(sel)), Region |-> config.Region]

\* the GetSecretValue request getRDSCredentials issues: the client is made
\* from cfg with its region set to homeRegion
SecretRequest(sel, config, home) ==
  [SecretId |-> SecretID(instanceSecretTargetID(sel)), Region |-> home]

\* the payloads of the secret store
SecretCreds == { [Username |-> "root", Password |-> "pw1"],
                 [Username |-> "root", Password |-> "pw2"] }

\* fmt.Sprintf("%d", n) for n >= 0: the decimal digits, most significant first
Digits == <<"0", "1", "2", "3", "4", "5", "6", "7", "8", "9">>
RECURSIVE Sprintd(_)
Sprintd(n) ==
  IF n < 10 THEN <<Digits[n + 1]>>
  ELSE Append(Sprintd(n \div 10), Digits[(n % 10) + 1])

\* a variant that hands the password over with the arguments as well
buildConnectArgsWithPassword(inst, c) ==
  <<"-h", inst.Host, "-p", Sprintd(inst.Port), "-U", c.Username,
    "-d", "postgres", "-W", c.Password>>

buildConnectArgs(inst, c) ==
  <<"-h", inst.Host, "-p", Sprintd(inst.Port), "-U", c.Username,
    "-d", "postgres">>

\* the exec.Cmd of executeExternal
ExternalCmd(bin, inst, c) ==
  [Path |-> bin, Args |-> buildConnectArgs(inst, c),
   PGPASSWORD |-> c.Password]

NoCmd == [Path |-> "", Args |-> <<>>, PGPASSWORD |-> ""]

(***************************************************************************)
(* State.                                                                  *)
(***************************************************************************)
VARIABLES
  pc,          \* the statement the invocation is at; "idle" between invocations
  runs,        \* the invocations started so far
  now,         \* the wall clock, in seconds
  cacheFiles,  \* the instance cache files, by name
  lastFiles,   \* the last-selection files, by name
  saved,       \* per cache file, the list this build last saved there, when,
               \* and how often it has been served from the file since
  lastSaved,   \* per last-selection file, the identifier last saved in it
               \* and the region of the run that saved it
  foreground,  \* the foreground process group of the terminal
  opts,        \* the Options of the invocation
  vpnErr,      \* the error of the VPN check, until the next statement
  cfg,         \* the operating aws.Config
  homeRegion,  \* the home region loadAWSConfig returned
  instances,   \* the list GetInstancesWithCache returned
  fetchErr,    \* the error GetInstancesWithCache returned
  described,   \* the DBInstances of the response, until the caller goes on
  found,       \* the cache file as GetInstancesWithCache found it, likewise
  selected,    \* the instance the selection returned
  selectErr,   \* the error the selection returned
  creds,       \* the RDSCreds of the selected instance
  stdinTTY,    \* term.IsTerminal(0): "unknown" until first asked
  child,       \* the external client: "none", "running", "exited"
  waitErr,     \* what cmd.Start or cmd.Wait returned in startAndWait
  ret,         \* what Run returned
  log,         \* the calls of this invocation that reach outside it, in order
  shown,       \* the candidate lists the picker was opened on
  secretCalls, \* the GetSecretValue requests issued
  cmd,         \* the exec.Cmd of the external client
  printed,     \* the last thing the native client printed
  toComplete,  \* the word the shell asks completions for
  completions, \* the completions handed to the shell
  byteFile,    \* one cache file as the bytes on disk, for invocations at once
  peers,       \* the invocations running GetInstancesWithCache at once
  refreshed    \* the lists the refreshes of these invocations have produced

\* what outlives an invocation
disk == <<cacheFiles, lastFiles, lastSaved>>
world == <<runs, now, cacheFiles, lastFiles, saved, lastSaved, foreground>>

\* invocations running at once on one cache file
race == <<byteFile, peers, refreshed>>

\* the locals of an invocation
setup == <<opts, vpnErr, cfg, homeRegion>>
fetched == <<instances, fetchErr, described, found>>
choice == <<selected, selectErr, shown>>
secret == <<creds, secretCalls>>
handoff == <<stdinTTY, child, waitErr, cmd>>
shell == <<toComplete, completions>>

vars == <<pc, runs, now, cacheFiles, lastFiles, saved, lastSaved, foreground,
          opts,
          vpnErr, cfg, homeRegion, instances, fetchErr, described, found,
          selected,
          selectErr, creds,
          stdinTTY, child, waitErr, ret, log, shown, secretCalls, cmd,
          printed, toComplete, completions, byteFile, peers, refreshed>>

NoOptions == [Profile |-> "", Region |-> "", LastConnected |-> FALSE,
              Args |-> <<>>]
NoCreds == [Username |-> "", Password |-> ""]
NothingSaved == [valid |-> FALSE, list |-> <<>>, at |-> 0, hits |-> 0]
NoneSaved == [valid |-> FALSE, id |-> EmptyStr, replaced |-> FALSE,
              region |-> ""]

\* no invocations run at once
NoPeers ==
  /\ byteFile = [exists |-> FALSE, data |-> <<>>, mtime |-> 0]
  /\ peers = <<>>
  /\ refreshed = {}

\* the locals of a process that has not started
LocalsInit ==
  /\ opts = NoOptions
  /\ vpnErr = NilErr
  /\ cfg = NoConfig
  /\ homeRegion = ""
  /\ instances = <<>>
  /\ fetchErr = NilErr
  /\ described = <<>>
  /\ found = NoCacheFile
  /\ selected = ZeroInstance
  /\ selectErr = NilErr
  /\ creds = NoCreds
  /\ stdinTTY = "unknown"
  /\ child = "none"
  /\ waitErr = NilErr
  /\ ret = NilErr
  /\ log = <<>>
  /\ shown = <<>>
  /\ secretCalls = <<>>
  /\ cmd = NoCmd
  /\ printed = ""
  /\ toComplete = EmptyStr
  /\ completions = <<>>

Init ==
  /\ pc = "idle"
  /\ runs = 0
  /\ now = 0
  /\ cacheFiles = [f \in CacheFileNames |-> NoCacheFile]
  /\ lastFiles = [f \in LastFileNames |-> NoLastFile]
  /\ lastSaved = [f \in LastFileNames |-> NoneSaved]
  /\ saved = [f \in CacheFileNames |-> NothingSaved]
  /\ foreground = "parent"
  /\ NoPeers
  /\ LocalsInit

(***************************************************************************)
(* The environment between invocations.                                    *)
(***************************************************************************)
\* time passes
Advance ==
  /\ pc = "idle"
  /\ now + Tick <= MaxNow
  /\ now' = now + Tick
  /\ UNCHANGED <<race, pc, runs, disk, saved, foreground, setup, fetched, choice,
                 secret, handoff, ret, log, printed, shell>>

\* a cache file this build did not write: left by a build with the earlier
\* schema version, or cut short
ForeignCacheFile ==
  /\ pc = "idle"
  /\ \E f \in CacheFileNames, text \in {OlderBuildText, TruncatedText} :
        /\ cacheFiles[f] # [exists |-> TRUE, data |-> text, mtime |-> now]
        /\ cacheFiles' = [cacheFiles EXCEPT
                            ![f] = [exists |-> TRUE, data |-> text,
                                    mtime |-> now]]
        /\ saved' = [saved EXCEPT ![f] = NothingSaved]
  /\ UNCHANGED <<race, pc, runs, now, lastFiles, lastSaved, foreground, setup, fetched,
                 choice,
                 secret, handoff, ret, log, printed, shell>>

(***************************************************************************)
(* GetInstancesWithCache, called at statement `at`, returning to `after`.  *)
(***************************************************************************)
\* the first half: the cached list, when the file is read, decoded, of the
\* current version and fresh
CacheHit(file, clock) ==
  /\ file.exists
  /\ UnmarshalOK(file.data)
  /\ CacheUsable(Unmarshal(file.data), clock - file.mtime)

\* a variant in which serving the file renews its modification time
FileAfterHitTouched(file, clock) == [file EXCEPT !.mtime = clock]

\* the cache file after it was served: the first half of
\* GetInstancesWithCache returns without writing
FileAfterHit(file, clock) == file

\* the file os.WriteFile leaves behind
SavedCacheFile(insts, clock) ==
  [exists |-> TRUE,
   data |-> Marshal(CacheEnvelope(CacheVersion, insts)),
   mtime |-> clock]

GetInstancesWithCache(at, after) ==
  /\ pc = at
  /\ LET name == CacheFileName(opts.Profile, cfg.Region)
         file == cacheFiles[name]
     IN  \/ /\ CacheHit(file, now)
            /\ instances' = Unmarshal(file.data).Instances
            /\ fetchErr' = NilErr
            /\ pc' = after
            /\ log' = log \o <<"ReadFile cache">>
            /\ cacheFiles' = [cacheFiles EXCEPT
                                ![name] = FileAfterHit(file, now)]
            /\ saved' = [saved EXCEPT ![name].hits = @ + 1]
            /\ described' = described
         \/ /\ ~CacheHit(file, now)
            /\ \/ \* DescribeDBInstances fails
                  /\ instances' = <<>>
                  /\ fetchErr' = Errorf("DescribeDBInstances", <<>>)
                  /\ pc' = after
                  /\ log' = log \o <<"ReadFile cache", "DescribeDBInstances">>
                  /\ UNCHANGED <<cacheFiles, saved, described>>
               \/ \E dbs \in DescribeResponses :
                     /\ DereferencesNil(dbs)
                     /\ pc' = "panic"
                     /\ log' = log \o <<"ReadFile cache", "DescribeDBInstances">>
                     /\ described' = dbs
                     /\ UNCHANGED <<cacheFiles, saved, instances, fetchErr>>
               \/ \E dbs \in DescribeResponses :
                     /\ ~DereferencesNil(dbs)
                     /\ described' = dbs
                     /\ instances' = FilterPostgres(dbs)
                     /\ fetchErr' = NilErr
                     /\ saved' = [saved EXCEPT
                                    ![name] = [valid |-> TRUE,
                                               list |-> FilterPostgres(dbs),
                                               at |-> now, hits |-> 0]]
                     /\ cacheFiles' =
                          [cacheFiles EXCEPT
                             ![name] = SavedCacheFile(FilterPostgres(dbs), now)]
                     /\ pc' = after
                     /\ log' = log \o <<"ReadFile cache", "DescribeDBInstances",
                                        "WriteFile cache">>
  /\ found' = cacheFiles[CacheFileName(opts.Profile, cfg.Region)]
  /\ UNCHANGED <<race, runs, now, lastFiles, lastSaved, foreground, setup, choice,
                 secret,
                 handoff, ret, printed, shell>>

(***************************************************************************)
(* Run, statement by statement.                                            *)
(***************************************************************************)
\* runConnect builds the Options from the flags and the positional argument
runConnect ==
  /\ pc = "idle"
  /\ runs < MaxRuns
  /\ runs' = runs + 1
  /\ \E p \in Profiles, r \in RegionFlags, l \in BOOLEAN,
        a \in { <<>> } \cup { <<n>> : n \in Names } :
        opts' = [Profile |-> p, Region |-> r, LastConnected |-> l, Args |-> a]
  /\ pc' = "vpn"
  /\ UNCHANGED <<race, now, disk, saved, foreground, vpnErr, cfg, homeRegion,
                 fetched, choice, secret, handoff, ret, log, printed, shell>>

\* a variant that gives up when the check returns an error
AbortOnVPNError(err) == IF IsErr(err) THEN "done" ELSE "config"

\* the body of `if err != nil` after the check only prints: whatever the
\* error, the next statement of Run is loadAWSConfig
AfterVPNCheck(err) == "config"

\* if err := CheckVPNWithPritunl(opts.Profile); err != nil { warn }
RunCheckVPN ==
  /\ pc = "vpn"
  /\ \E answer \in PritunlAnswers :
        /\ vpnErr' = CheckVPNWithPritunl(opts.Profile, answer)
        /\ pc' = AfterVPNCheck(CheckVPNWithPritunl(opts.Profile, answer))
  /\ log' = Append(log, "CheckVPNWithPritunl")
  /\ UNCHANGED <<race, world, opts, cfg, homeRegion, fetched, choice, secret,
                 handoff, ret, printed, shell>>

\* cfg, homeRegion, err := loadAWSConfig(ctx, opts.Profile, opts.Region)
RunLoadConfig ==
  /\ pc = "config"
  /\ \/ /\ cfg' = OperatingConfig(opts.Profile, opts.Region)
        /\ homeRegion' = HomeRegionOf(opts.Profile)
        /\ pc' = "instances"
        /\ ret' = ret
     \/ /\ \E f \in {"load AWS config (home): %w", "load AWS config: %w"} :
              ret' = Errorf(f, <<"sdk">>)
        /\ pc' = "done"
        /\ UNCHANGED <<cfg, homeRegion>>
  /\ vpnErr' = NilErr
  /\ log' = Append(log, "loadAWSConfig")
  /\ UNCHANGED <<race, world, opts, fetched, choice, secret, handoff, printed,
                 shell>>

\* instances, err := GetInstancesWithCache(...); if err != nil { return }
RunGetInstances == GetInstancesWithCache("instances", "fetched")

RunCheckInstances ==
  /\ pc = "fetched"
  /\ IF IsErr(fetchErr)
       THEN /\ ret' = Errorf("fetch instances: %w", <<fetchErr>>)
            /\ pc' = "done"
       ELSE /\ ret' = ret
            /\ pc' = "select"
  /\ described' = <<>>
  /\ found' = NoCacheFile
  /\ UNCHANGED <<race, world, setup, instances, fetchErr, choice, secret, handoff,
                 log, printed, shell>>

(***************************************************************************)
(* Selection, credentials, last-selection.                                 *)
(***************************************************************************)
\* the answers the user may give, when the selection opens the picker
AnswersFor(o, insts, files) ==
  LET probe == SelectInstance(o, insts, files, Abort).shown
  IN  IF probe = <<>> THEN { Abort } ELSE PickerAnswers(probe[1])

\* a variant without the test of selectErr
RunSelectIgnoresError ==
  /\ pc = "select"
  /\ \E answer \in AnswersFor(opts, instances, lastFiles) :
        LET sel == SelectInstance(opts, instances, lastFiles, answer)
        IN  /\ selected' = sel.inst
            /\ selectErr' = sel.err
            /\ shown' = shown \o sel.shown
            /\ log' = log \o sel.calls
            /\ ret' = ret
            /\ pc' = "creds"
  /\ UNCHANGED <<race, world, setup, fetched, secret, handoff, printed, shell>>

\* selected, selectErr = ...; if selectErr != nil { return "selection: %w" }
RunSelect ==
  /\ pc = "select"
  /\ \E answer \in AnswersFor(opts, instances, lastFiles) :
        LET sel == SelectInstance(opts, instances, lastFiles, answer)
        IN  /\ selected' = sel.inst
            /\ selectErr' = sel.err
            /\ shown' = shown \o sel.shown
            /\ log' = log \o sel.calls
            /\ IF IsErr(sel.err)
                 THEN /\ ret' = Errorf("selection: %w", <<sel.err>>)
                      /\ pc' = "done"
                 ELSE /\ ret' = ret
                      /\ pc' = "creds"
  /\ UNCHANGED <<race, world, setup, fetched, secret, handoff, printed, shell>>

\* creds, err := getRDSCredentials(ctx, cfg, selected, homeRegion)
RunGetCredentials ==
  /\ pc = "creds"
  /\ secretCalls' = Append(secretCalls, SecretRequest(selected, cfg, homeRegion))
  /\ log' = Append(log, "GetSecretValue")
  /\ \/ \* the lookup fails
        /\ ret' = Errorf("secrets: %w",
                         <<Errorf("failed to fetch secret '%s' in %s: %w",
                                  <<SecretRequest(selected, cfg, homeRegion).SecretId,
                                    homeRegion, "GetSecretValue">>)>>)
        /\ pc' = "done"
        /\ creds' = creds
     \/ \* the secret has no SecretString: *out.SecretString dereferences nil
        /\ pc' = "panic"
        /\ UNCHANGED <<ret, creds>>
     \/ \* the payload is no JSON object
        /\ ret' = Errorf("secrets: %w", <<Errorf("json: %s", <<"Unmarshal">>)>>)
        /\ pc' = "done"
        /\ creds' = creds
     \/ /\ \E c \in SecretCreds : creds' = c
        /\ pc' = "save"
        /\ ret' = ret
  /\ UNCHANGED <<race, world, setup, fetched, choice, handoff, printed, shell>>

\* a variant that writes the identifier in quotes
SavedLastFileQuoted(id) ==
  [exists |-> TRUE, data |-> <<"\"">> \o id \o <<"\"">>]

\* the file saveLastID leaves behind
SavedLastFile(id) == [exists |-> TRUE, data |-> id]

\* the clients exec.LookPath may find
ClientsOnPath == SUBSET { "pgcli", "psql" }

\* exec.LookPath(file): err == nil when the file is found
LookPath(file, onPath) == file \in onPath

\* the LookPath calls Run makes before it launches, with what they found:
\* psql is looked up only after pgcli was not found
LookPathCalls(onPath) ==
  IF LookPath("pgcli", onPath)
    THEN <<"LookPath pgcli: found">>
    ELSE <<"LookPath pgcli: not found">>
         \o IF LookPath("psql", onPath)
              THEN <<"LookPath psql: found">>
              ELSE <<"LookPath psql: not found">>

\* a variant that looks for psql first
ChooseClientPsqlFirst(onPath) ==
  IF "psql" \in onPath THEN "psql"
  ELSE IF "pgcli" \in onPath THEN "pgcli"
  ELSE "native"

\* the two LookPath calls of Run, in their order
ChooseClient(onPath) ==
  IF "pgcli" \in onPath THEN "pgcli"
  ELSE IF "psql" \in onPath THEN "psql"
  ELSE "native"

\* a variant with saveLastID after the launch, behind the early returns
RunLaunchWithoutSave ==
  /\ pc = "save"
  /\ \E onPath \in ClientsOnPath :
        LET client == ChooseClient(onPath)
        IN  IF client = "native"
              THEN /\ pc' = "native"
                   /\ cmd' = cmd
                   /\ log' = log \o LookPathCalls(onPath)
                             \o <<"runNativeConnect">>
              ELSE /\ pc' = "start"
                   /\ cmd' = ExternalCmd(client, selected, creds)
                   /\ log' = log \o LookPathCalls(onPath)
                             \o <<"executeExternal">>
  /\ UNCHANGED <<race, world, setup, fetched, choice, secret, stdinTTY, child,
                 waitErr, ret, printed, shell>>

\* saveLastID(selected.ID, opts.Profile), then the LookPath calls and the
\* exec.Cmd of executeExternal
RunSaveAndLaunch ==
  /\ pc = "save"
  /\ lastFiles' = [lastFiles EXCEPT
                     ![LastFileName(opts.Profile)] = SavedLastFile(selected.ID)]
  /\ lastSaved' = [lastSaved EXCEPT
                     ![LastFileName(opts.Profile)] =
                        [valid |-> TRUE, id |-> selected.ID,
                         replaced |->
                           /\ lastFiles[LastFileName(opts.Profile)].exists
                           /\ lastFiles[LastFileName(opts.Profile)].data
                                # selected.ID,
                         region |-> cfg.Region]]
  /\ \E onPath \in ClientsOnPath :
        LET client == ChooseClient(onPath)
        IN  IF client = "native"
              THEN /\ pc' = "native"
                   /\ cmd' = cmd
                   /\ log' = log \o <<"WriteFile last">>
                             \o LookPathCalls(onPath)
                             \o <<"runNativeConnect">>
              ELSE /\ pc' = "start"
                   /\ cmd' = ExternalCmd(client, selected, creds)
                   /\ log' = log \o <<"WriteFile last">>
                             \o LookPathCalls(onPath)
                             \o <<"executeExternal">>
  /\ UNCHANGED <<race, runs, now, cacheFiles, saved, foreground, setup, fetched,
                 choice, secret, stdinTTY, child, waitErr, ret, printed, shell>>

(***************************************************************************)
(* startAndWait.                                                           *)
(***************************************************************************)
\* the process group TIOCSPGRP is given after the start: cmd.Process.Pid,
\* and after the wait: unix.Getpgrp()
GroupOfParent == "parent"
GroupAfterStart == "child"
GroupAfterWait == "parent"

\* term.IsTerminal(0): a fact of the process, first asked after the start
IsTerminal(stdin) == stdin = "terminal"

\* a variant that returns the error of Wait before restoring
RestoresOnlyOnSuccess(stdin, err) == IsTerminal(stdin) /\ ~IsErr(err)

\* the guard of the restoring ioctl after cmd.Wait(): the terminal test
\* alone, whatever Wait returned
RestoresAfterWait(stdin, err) == IsTerminal(stdin)

\* cmd.Start() with Setpgid: the child runs in a process group of its own,
\* or the start fails and startAndWait returns the error at once
StartChild ==
  /\ pc = "start"
  /\ \E tty \in { "terminal", "not a terminal" } : stdinTTY' = tty
  /\ log' = Append(log, "cmd.Start")
  /\ \/ /\ child' = "running"
        /\ waitErr' = waitErr
        /\ pc' = "transfer"
        /\ ret' = ret
     \/ /\ child' = child
        /\ waitErr' = Errorf("exec: %s", <<"start">>)
        \* executeExternal drops the error and Run returns nil
        /\ ret' = NilErr
        /\ pc' = "done"
  /\ UNCHANGED <<race, world, setup, fetched, choice, secret, cmd, printed, shell>>

\* if term.IsTerminal(fd) { TIOCSPGRP to cmd.Process.Pid }
TransferTerminal ==
  /\ pc = "transfer"
  /\ IF IsTerminal(stdinTTY)
       THEN /\ foreground' = GroupAfterStart
            /\ log' = Append(log, "TIOCSPGRP child")
       ELSE /\ foreground' = foreground
            /\ log' = log
  /\ pc' = "wait"
  /\ UNCHANGED <<race, runs, now, disk, saved, setup, fetched, choice, secret,
                 handoff, ret, printed, shell>>

\* err := cmd.Wait(): the child exits, with or without failure
WaitChild ==
  /\ pc = "wait"
  /\ child' = "exited"
  /\ \E e \in { NilErr, Errorf("exit status %d", <<1>>) } : waitErr' = e
  /\ log' = Append(log, "cmd.Wait")
  /\ pc' = "restore"
  /\ UNCHANGED <<race, world, setup, fetched, choice, secret, stdinTTY, cmd, ret,
                 printed, shell>>

\* if term.IsTerminal(fd) { TIOCSPGRP to unix.Getpgrp() }; return err
RestoreTerminal ==
  /\ pc = "restore"
  /\ IF RestoresAfterWait(stdinTTY, waitErr)
       THEN /\ foreground' = GroupAfterWait
            /\ log' = Append(log, "TIOCSPGRP parent")
       ELSE /\ foreground' = foreground
            /\ log' = log
  \* executeExternal drops the error and Run returns nil
  /\ ret' = NilErr
  /\ pc' = "done"
  /\ UNCHANGED <<race, runs, now, disk, saved, setup, fetched, choice, secret,
                 handoff, printed, shell>>

(***************************************************************************)
(* runNativeConnect.                                                       *)
(***************************************************************************)
\* sql.Open and db.Ping: on failure the error is printed and the function
\* returns; Run returns nil either way
NativeOpen ==
  /\ pc = "native"
  /\ \/ /\ \E msg \in { "Connection Error", "Connection Failed" } :
              printed' = msg
        /\ ret' = NilErr
        /\ pc' = "done"
     \/ /\ printed' = "Connected"
        /\ ret' = ret
        /\ pc' = "repl"
  /\ UNCHANGED <<race, world, setup, fetched, choice, secret, handoff, log, shell>>

\* one turn of the read loop: a query that succeeds or fails (a blank line
\* changes nothing)
NativeLine ==
  /\ pc = "repl"
  /\ \E line \in { "query ok", "query fails" } :
        printed' = IF line = "query ok" THEN "rows" ELSE "ERROR"
  /\ UNCHANGED <<race, pc, world, setup, fetched, choice, secret, handoff, ret, log,
                 shell>>

\* end of input, "exit" or "quit": the loop breaks and Run returns nil
NativeQuit ==
  /\ pc = "repl"
  /\ ret' = NilErr
  /\ pc' = "done"
  /\ UNCHANGED <<race, world, setup, fetched, choice, secret, handoff, log, printed,
                 shell>>

(***************************************************************************)
(* The shell completion of the connect command (ValidArgsFunction).        *)
(***************************************************************************)
\* the identifiers with the prefix, each with its size
RECURSIVE CompletionsOf(_, _)
CompletionsOf(insts, prefix) ==
  IF insts = <<>> THEN <<>>
  ELSE IF HasPrefix(Head(insts).ID, prefix)
         THEN <<Head(insts).ID \o <<"\t", Head(insts).Size>>>>
              \o CompletionsOf(Tail(insts), prefix)
         ELSE CompletionsOf(Tail(insts), prefix)

\* the shell asks for completions: the configuration is loaded with the
\* profile and the region flag
CompleteBegin ==
  /\ pc = "idle"
  /\ runs < MaxRuns
  /\ runs' = runs + 1
  /\ \E p \in Profiles, r \in RegionFlags, w \in CompletionWords :
        /\ opts' = [Profile |-> p, Region |-> r, LastConnected |-> FALSE,
                    Args |-> <<>>]
        /\ toComplete' = w
        /\ \/ /\ cfg' = LoadDefaultConfig(p, r)
              /\ pc' = "complete"
           \/ /\ cfg' = cfg
              /\ pc' = "done"
  /\ UNCHANGED <<race, now, disk, saved, foreground, vpnErr, homeRegion, fetched,
                 choice, secret, handoff, ret, log, printed, completions>>

CompleteGetInstances == GetInstancesWithCache("complete", "completing")

CompleteReturn ==
  /\ pc = "completing"
  /\ completions' = IF IsErr(fetchErr)
                      THEN <<>>
                      ELSE CompletionsOf(instances, toComplete)
  /\ pc' = "done"
  /\ described' = <<>>
  /\ found' = NoCacheFile
  /\ UNCHANGED <<race, world, setup, instances, fetchErr, choice, secret, handoff,
                 ret, log, printed, toComplete>>

(***************************************************************************)
(* The process ends: the command returned, or the process panicked.        *)
(***************************************************************************)
ProcessExit ==
  /\ pc \in { "done", "panic" }
  /\ pc' = "idle"
  /\ opts' = NoOptions
  /\ vpnErr' = NilErr
  /\ cfg' = NoConfig
  /\ homeRegion' = ""
  /\ instances' = <<>>
  /\ fetchErr' = NilErr
  /\ described' = <<>>
  /\ found' = NoCacheFile
  /\ selected' = ZeroInstance
  /\ selectErr' = NilErr
  /\ creds' = NoCreds
  /\ stdinTTY' = "unknown"
  /\ child' = "none"
  /\ waitErr' = NilErr
  /\ ret' = NilErr
  /\ log' = <<>>
  /\ shown' = <<>>
  /\ secretCalls' = <<>>
  /\ cmd' = NoCmd
  /\ printed' = ""
  /\ toComplete' = EmptyStr
  /\ completions' = <<>>
  /\ UNCHANGED <<race, world>>

\* the exit status runConnect leaves: os.Exit(1) when Run returned an
\* error, 0 when it returned nil, and 2 from a panic
ExitStatus(at, err) ==
  IF at = "panic" THEN 2 ELSE IF IsErr(err) THEN 1 ELSE 0

(***************************************************************************)
(* Specifications.                                                         *)
(***************************************************************************)
\* the connect command, run after run
Next ==
  \/ runConnect
  \/ RunCheckVPN
  \/ RunLoadConfig
  \/ RunGetInstances
  \/ RunCheckInstances
  \/ RunSelect
  \/ RunGetCredentials
  \/ RunSaveAndLaunch
  \/ StartChild
  \/ TransferTerminal
  \/ WaitChild
  \/ RestoreTerminal
  \/ NativeOpen
  \/ NativeLine
  \/ NativeQuit
  \/ ProcessExit

Spec == Init /\ [][Next]_vars

\* the instance cache over time, read and refreshed by the shell completion
NextCache ==
  \/ Advance
  \/ ForeignCacheFile
  \/ CompleteBegin
  \/ CompleteGetInstances
  \/ CompleteReturn
  \/ ProcessExit

SpecCache == Init /\ [][NextCache]_vars

\* the lists a refresh may have saved
SavedLists ==
  { FilterPostgres(dbs) : dbs \in { d \in DescribeResponses :
                                       ~DereferencesNil(d) } }

\* the instance cache with a list on file that a refresh has just saved,
\* and two more invocations to come
InitWarm ==
  /\ pc = "idle"
  /\ runs = MaxRuns - 2
  /\ now = 0
  /\ \E f \in CacheFileNames, list \in SavedLists :
        /\ cacheFiles = [g \in CacheFileNames |->
                           IF g = f THEN SavedCacheFile(list, now)
                                    ELSE NoCacheFile]
        /\ saved = [g \in CacheFileNames |->
                      IF g = f THEN [valid |-> TRUE, list |-> list,
                                     at |-> now, hits |-> 0]
                               ELSE NothingSaved]
  /\ lastFiles = [f \in LastFileNames |-> NoLastFile]
  /\ lastSaved = [f \in LastFileNames |-> NoneSaved]
  /\ foreground = "parent"
  /\ NoPeers
  /\ LocalsInit

SpecWarm == InitWarm /\ [][NextCache]_vars

\* the selection statement of Run on its own: every instance list up to
\* MaxList, every Options, every last-selection file, the list having been
\* served from the cache
SelectInstances ==
  { InstanceOfDB(db) : db \in { d \in DBInstancesUniverse :
                                   d.Engine = "postgres" /\ d.Endpoint.present } }

SelectNames == Names \cup { <<"a", "b">>, EmptyStr }

SelectLastFiles ==
  { NoLastFile } \cup
  { [exists |-> TRUE, data |-> id] :
      id \in { <<"a">>, <<"b", "a">>, <<"gone">>, <<" ", "a", "b", "\n">> } }

InitSelect ==
  /\ pc = "select"
  /\ runs = 1
  /\ now = 0
  /\ foreground = "parent"
  /\ \E p \in Profiles, r \in RegionFlags, l \in BOOLEAN,
        a \in { <<>> } \cup { <<n>> : n \in SelectNames } :
        /\ opts = [Profile |-> p, Region |-> r, LastConnected |-> l,
                   Args |-> a]
        /\ cfg = OperatingConfig(p, r)
        /\ homeRegion = HomeRegionOf(p)
  /\ instances \in DistinctSeqs(SelectInstances, MaxList)
  /\ cacheFiles = [f \in CacheFileNames |->
                     IF f = CacheFileName(opts.Profile, cfg.Region)
                       THEN SavedCacheFile(instances, now)
                       ELSE NoCacheFile]
  /\ saved = [f \in CacheFileNames |->
                IF f = CacheFileName(opts.Profile, cfg.Region)
                  THEN [valid |-> TRUE, list |-> instances, at |-> now,
                        hits |-> 1]
                  ELSE NothingSaved]
  /\ lastFiles \in [LastFileNames -> SelectLastFiles]
  /\ lastSaved = [f \in LastFileNames |-> NoneSaved]
  /\ NoPeers
  /\ log = <<"CheckVPNWithPritunl", "loadAWSConfig", "ReadFile cache">>
  /\ vpnErr = NilErr
  /\ fetchErr = NilErr
  /\ described = <<>>
  /\ found = NoCacheFile
  /\ selected = ZeroInstance
  /\ selectErr = NilErr
  /\ creds = NoCreds
  /\ stdinTTY = "unknown"
  /\ child = "none"
  /\ waitErr = NilErr
  /\ ret = NilErr
  /\ shown = <<>>
  /\ secretCalls = <<>>
  /\ cmd = NoCmd
  /\ printed = ""
  /\ toComplete = EmptyStr
  /\ completions = <<>>

NextSelect == RunSelect

SpecSelect == InitSelect /\ [][NextSelect]_vars

\* getRDSCredentials on its own: every selected instance of
\* SecretInstances, every profile and region flag
ResourceName(fields) ==
  ARNPrefix \o fields

SecretSources ==
  { EmptyStr,
    <<"m">>,
    <<"arn", ":", "aws", ":", "rds">>,
    MasterARN,
    ResourceName(<<"ap-south-1", ":", "123456789012", ":", "db", ":", "m",
                   ":", "x">>),
    ResourceName(<<"ap-south-1", ":", "123456789012", ":", "db", ":", "r">>),
    ResourceName(<<"ap-south-1", ":", "123456789012", ":", "db", ":">>),
    ResourceName(<<"ap-south-1", ":", "123456789012", ":", "db">>),
    ResourceName(<<"m">>) }

SecretInstances ==
  { InstanceInfo(id, id \o <<".rds">>, "db.t3.micro", 5432, "15", source) :
      id \in { <<"r">>, <<"a">> }, source \in SecretSources }

InitSecret ==
  /\ pc = "creds"
  /\ runs = 1
  /\ now = 0
  /\ foreground = "parent"
  /\ \E p \in ConfiguredProfiles, r \in RegionFlags :
        /\ opts = [Profile |-> p, Region |-> r, LastConnected |-> FALSE,
                   Args |-> <<>>]
        /\ cfg = OperatingConfig(p, r)
        /\ homeRegion = HomeRegionOf(p)
  /\ selected \in SecretInstances
  /\ instances = <<selected>>
  /\ cacheFiles = [f \in CacheFileNames |-> NoCacheFile]
  /\ saved = [f \in CacheFileNames |-> NothingSaved]
  /\ lastFiles = [f \in LastFileNames |-> NoLastFile]
  /\ lastSaved = [f \in LastFileNames |-> NoneSaved]
  /\ NoPeers
  /\ log = <<"CheckVPNWithPritunl", "loadAWSConfig", "ReadFile cache",
             "DescribeDBInstances", "pickWithFuzzyFinder">>
  /\ shown = << <<selected>> >>
  /\ vpnErr = NilErr
  /\ fetchErr = NilErr
  /\ described = <<>>
  /\ found = NoCacheFile
  /\ selectErr = NilErr
  /\ creds = NoCreds
  /\ stdinTTY = "unknown"
  /\ child = "none"
  /\ waitErr = NilErr
  /\ ret = NilErr
  /\ secretCalls = <<>>
  /\ cmd = NoCmd
  /\ printed = ""
  /\ toComplete = EmptyStr
  /\ completions = <<>>

NextSecret == RunGetCredentials

SpecSecret == InitSecret /\ [][NextSecret]_vars

\* the first two statements of Run for every configured profile: the VPN
\* check and loadAWSConfig
InitSetup ==
  /\ pc = "vpn"
  /\ runs = 1
  /\ now = 0
  /\ cacheFiles = [f \in CacheFileNames |-> NoCacheFile]
  /\ lastFiles = [f \in LastFileNames |-> NoLastFile]
  /\ saved = [f \in CacheFileNames |-> NothingSaved]
  /\ lastSaved = [f \in LastFileNames |-> NoneSaved]
  /\ foreground = "parent"
  /\ \E p \in ConfiguredProfiles, r \in RegionFlags, l \in BOOLEAN,
        a \in { <<>> } \cup { <<n>> : n \in Names } :
        opts = [Profile |-> p, Region |-> r, LastConnected |-> l, Args |-> a]
  /\ vpnErr = NilErr
  /\ cfg = NoConfig
  /\ homeRegion = ""
  /\ instances = <<>>
  /\ fetchErr = NilErr
  /\ described = <<>>
  /\ found = NoCacheFile
  /\ selected = ZeroInstance
  /\ selectErr = NilErr
  /\ creds = NoCreds
  /\ stdinTTY = "unknown"
  /\ child = "none"
  /\ waitErr = NilErr
  /\ ret = NilErr
  /\ NoPeers
  /\ log = <<>>
  /\ shown = <<>>
  /\ secretCalls = <<>>
  /\ cmd = NoCmd
  /\ printed = ""
  /\ toComplete = EmptyStr
  /\ completions = <<>>

NextSetup ==
  \/ RunCheckVPN
  \/ RunLoadConfig

SpecSetup == InitSetup /\ [][NextSetup]_vars

\* Run from its selection statement on, followed by one more invocation,
\* with a last-selection file an earlier invocation saved
InitLast ==
  /\ pc = "select"
  /\ runs = MaxRuns - 1
  /\ now = 0
  /\ foreground = "parent"
  /\ \E p \in Profiles, r \in RegionFlags, l \in BOOLEAN,
        a \in { <<>> } \cup { <<n>> : n \in Names } :
        /\ opts = [Profile |-> p, Region |-> r, LastConnected |-> l,
                   Args |-> a]
        /\ cfg = OperatingConfig(p, r)
        /\ homeRegion = HomeRegionOf(p)
  /\ instances \in DistinctSeqs(SelectInstances, MaxFleet)
  /\ cacheFiles = [f \in CacheFileNames |->
                     IF f = CacheFileName(opts.Profile, cfg.Region)
                       THEN SavedCacheFile(instances, now)
                       ELSE NoCacheFile]
  /\ saved = [f \in CacheFileNames |->
                IF f = CacheFileName(opts.Profile, cfg.Region)
                  THEN [valid |-> TRUE, list |-> instances, at |-> now,
                        hits |-> 1]
                  ELSE NothingSaved]
  /\ \E before \in { NoneSaved } \cup
                   { [valid |-> TRUE, id |-> i.ID, replaced |-> FALSE,
                      region |-> cfg.Region] :
                       i \in SelectInstances } :
        /\ lastSaved = [f \in LastFileNames |-> before]
        /\ lastFiles = [f \in LastFileNames |->
                          IF before.valid THEN SavedLastFile(before.id)
                                          ELSE NoLastFile]
  /\ NoPeers
  /\ log = <<"CheckVPNWithPritunl", "loadAWSConfig", "ReadFile cache">>
  /\ vpnErr = NilErr
  /\ fetchErr = NilErr
  /\ described = <<>>
  /\ found = NoCacheFile
  /\ selected = ZeroInstance
  /\ selectErr = NilErr
  /\ creds = NoCreds
  /\ stdinTTY = "unknown"
  /\ child = "none"
  /\ waitErr = NilErr
  /\ ret = NilErr
  /\ shown = <<>>
  /\ secretCalls = <<>>
  /\ cmd = NoCmd
  /\ printed = ""
  /\ toComplete = EmptyStr
  /\ completions = <<>>

SpecLast == InitLast /\ [][Next]_vars


(***************************************************************************)
(* Invocations running GetInstancesWithCache at once on one cache file.   *)
(* os.ReadFile and os.WriteFile are several system calls each: ReadFile   *)
(* opens the file, sizes its buffer from the size the file has then and   *)
(* reads until end of file; WriteFile opens with O_TRUNC, which empties   *)
(* the file, and then writes from offset 0.  The text of the file is a    *)
(* sequence of symbols: the braces and brackets, the version member and   *)
(* one symbol per instance object.                                        *)
(***************************************************************************)
\* the invocations running at once
MaxPeers == 3
Peers == 1..MaxPeers

\* the smallest buffer os.ReadFile reads into (512 bytes), in symbols
MinReadBuf == 4

Tok(t, v) == [t |-> t, v |-> v]

\* the text json.Marshal returns for an envelope
EncodeText(j) ==
  IF j.instances.null
    THEN <<Tok("{", ""), Tok("version", j.version), Tok("null", ""),
           Tok("}", "")>>
    ELSE <<Tok("{", ""), Tok("version", j.version), Tok("[", "")>>
         \o [k \in 1..Len(j.instances.items) |->
               Tok("item", j.instances.items[k])]
         \o <<Tok("]", ""), Tok("}", "")>>

\* the texts json.Unmarshal accepts as one object: anything cut short, and
\* anything after the closing brace, is an error
WellFormed(b) ==
  /\ Len(b) >= 4
  /\ b[1].t = "{"
  /\ b[2].t = "version"
  /\ b[Len(b)].t = "}"
  /\ \/ Len(b) = 4 /\ b[3].t = "null"
     \/ /\ Len(b) >= 5
        /\ b[3].t = "["
        /\ b[Len(b) - 1].t = "]"
        /\ \A k \in 4..(Len(b) - 2) : b[k].t = "item"

ParseText(b) ==
  IF WellFormed(b)
    THEN [shape |-> "object",
          version |-> b[2].v,
          instances |->
            IF b[3].t = "null"
              THEN [null |-> TRUE, items |-> <<>>]
              ELSE [null |-> FALSE,
                    items |-> [k \in 1..(Len(b) - 5) |-> b[k + 3].v]]]
    ELSE TruncatedText

\* write(2) of data at offset 0 of a file holding old
WriteAt0(old, data) == data \o SubSeq(old, Len(data) + 1, Len(old))

\* read(2) into the free part of the buffer, from the offset reached
ReadChunk(text, have, cap) ==
  SubSeq(text, have + 1, IF Len(text) < cap THEN Len(text) ELSE cap)

\* the responses of DescribeDBInstances while the fleet changes: the
\* instance "a" is deleted and the replica "ba" is created
RaceResponses ==
  { << DB(<<"a">>, "postgres", EndpointOf(<<"a", ".rds">>), EmptyStr),
       DB(<<"a", "b">>, "postgres", EndpointOf(<<"a", "b", ".rds">>),
          EmptyStr) >>,
    << DB(<<"a", "b">>, "postgres", EndpointOf(<<"a", "b", ".rds">>),
          EmptyStr),
       DB(<<"b", "a">>, "postgres", EndpointOf(<<"b", "a", ".rds">>),
          MasterARN) >> }

PeerStart == [pc |-> "open", cap |-> 0, buf |-> <<>>, instances |-> <<>>,
              err |-> NilErr, fromCache |-> FALSE]

\* the cache file is absent, or left by a build with the earlier version
InitRace ==
  /\ pc = "idle"
  /\ runs = 0
  /\ now = 0
  /\ cacheFiles = [f \in CacheFileNames |-> NoCacheFile]
  /\ lastFiles = [f \in LastFileNames |-> NoLastFile]
  /\ lastSaved = [f \in LastFileNames |-> NoneSaved]
  /\ saved = [f \in CacheFileNames |-> NothingSaved]
  /\ foreground = "parent"
  /\ LocalsInit
  /\ byteFile \in { [exists |-> FALSE, data |-> <<>>, mtime |-> 0],
                    [exists |-> TRUE, data |-> EncodeText(OlderBuildText),
                     mtime |-> 0] }
  /\ peers = [p \in Peers |-> PeerStart]
  /\ refreshed = {}

\* everything but the invocations running at once
alone == <<pc, runs, now, cacheFiles, lastFiles, saved, lastSaved, foreground,
           setup, fetched, choice, secret, handoff, ret, log, printed, shell>>

\* os.ReadFile, first half: open and fstat; the buffer has room for the
\* size of the file plus one byte, and for MinReadBuf at least
PeerOpen(p) ==
  /\ peers[p].pc = "open"
  /\ peers' = [peers EXCEPT
                 ![p] = IF byteFile.exists
                          THEN [@ EXCEPT
                                  !.pc = "read",
                                  !.cap = IF Len(byteFile.data) + 1 < MinReadBuf
                                            THEN MinReadBuf
                                            ELSE Len(byteFile.data) + 1]
                          ELSE [@ EXCEPT !.pc = "describe"]]
  /\ UNCHANGED <<alone, byteFile, refreshed>>

\* os.ReadFile, second half: one read(2); at end of file the text goes to
\* json.Unmarshal, and a full buffer is grown by append
PeerRead(p) ==
  /\ peers[p].pc = "read"
  /\ LET chunk == ReadChunk(byteFile.data, Len(peers[p].buf), peers[p].cap)
         buf == peers[p].buf \o chunk
     IN  peers' = [peers EXCEPT
                     ![p] = IF chunk = <<>>
                              THEN [@ EXCEPT !.pc = "stat"]
                              ELSE [@ EXCEPT
                                      !.buf = buf,
                                      !.cap = IF Len(buf) >= @
                                                THEN 2 * @
                                                ELSE @]]
  /\ UNCHANGED <<alone, byteFile, refreshed>>

\* json.Unmarshal of what was read, os.Stat, and the test of version and age
PeerStat(p) ==
  /\ peers[p].pc = "stat"
  /\ LET j == ParseText(peers[p].buf)
     IN  peers' = [peers EXCEPT
                     ![p] = IF /\ UnmarshalOK(j)
                               /\ CacheUsable(Unmarshal(j),
                                              now - byteFile.mtime)
                              THEN [@ EXCEPT
                                      !.pc = "returned",
                                      !.instances = Unmarshal(j).Instances,
                                      !.fromCache = TRUE]
                              ELSE [@ EXCEPT !.pc = "describe"]]
  /\ UNCHANGED <<alone, byteFile, refreshed>>

\* DescribeDBInstances and the loop over the response
PeerDescribe(p) ==
  /\ peers[p].pc = "describe"
  /\ \/ /\ peers' = [peers EXCEPT
                       ![p] = [@ EXCEPT
                                 !.pc = "returned",
                                 !.err = Errorf("DescribeDBInstances", <<>>)]]
        /\ refreshed' = refreshed
     \/ \E dbs \in RaceResponses :
           /\ peers' = [peers EXCEPT
                          ![p] = [@ EXCEPT
                                    !.pc = "truncate",
                                    !.instances = FilterPostgres(dbs)]]
           /\ refreshed' = refreshed \cup { FilterPostgres(dbs) }
  /\ UNCHANGED <<alone, byteFile>>

\* os.WriteFile, first half: open with O_CREATE and O_TRUNC
PeerTruncate(p) ==
  /\ peers[p].pc = "truncate"
  /\ byteFile' = [exists |-> TRUE, data |-> <<>>, mtime |-> now]
  /\ peers' = [peers EXCEPT ![p] = [@ EXCEPT !.pc = "write"]]
  /\ UNCHANGED <<alone, refreshed>>

\* os.WriteFile, second half: one write(2) of the whole text, from offset 0;
\* GetInstancesWithCache returns the list it fetched
PeerWrite(p) ==
  /\ peers[p].pc = "write"
  /\ byteFile' =
       [exists |-> TRUE,
        data |-> WriteAt0(byteFile.data,
                          EncodeText(Marshal(CacheEnvelope(CacheVersion,
                                                           peers[p].instances)))),
        mtime |-> now]
  /\ peers' = [peers EXCEPT ![p] = [@ EXCEPT !.pc = "returned"]]
  /\ UNCHANGED <<alone, refreshed>>

NextRace ==
  \E p \in Peers :
     \/ PeerOpen(p)
     \/ PeerRead(p)
     \/ PeerStat(p)
     \/ PeerDescribe(p)
     \/ PeerTruncate(p)
     \/ PeerWrite(p)

SpecRace == InitRace /\ [][NextRace]_vars

(***************************************************************************)
(* Properties.                                                             *)
(***************************************************************************)
\* the call has been made in the current invocation
InLog(call) == \E k \in 1..Len(log) : log[k] = call

\* sub occurs in s as a run of consecutive symbols
IsSubstring(s, sub) ==
  \E i \in 0..Len(s) :
     /\ i + Len(sub) <= Len(s)
     /\ \A j \in 1..Len(sub) : s[i + j] = sub[j]

\* the k-th smallest member of a set of positions
NthOf(S, k) == CHOOSE i \in S : Cardinality({ m \in S : m < i }) = k - 1

\* sub is the subsequence of list at the positions P, in the order of list
IsSublistAt(sub, list, P) ==
  /\ Len(sub) = Cardinality(P)
  /\ \A j \in 1..Len(sub) : sub[j] = list[NthOf(P, j)]

NoError(e) == e.fmt = ""

\* C1 (amended): with an interactive stdin, on every exit path of
\* startAndWait on which the child was started, whether Wait returned nil or
\* an error, the step that restores the foreground process group to the
\* parent is executed before startAndWait returns; on the path where
\* starting the child fails, startAndWait returns without executing the
\* transfer step or the restore step, and the parent still owns the terminal.
C1_RestoreAfterStartedChild ==
  (pc = "done" /\ InLog("cmd.Start") /\ IsTerminal(stdinTTY)) =>
     /\ InLog("cmd.Wait") =>
          /\ InLog("TIOCSPGRP parent")
          /\ foreground = GroupOfParent
     /\ ~InLog("cmd.Wait") =>
          /\ child = "none"
          /\ ~InLog("TIOCSPGRP child")
          /\ ~InLog("TIOCSPGRP parent")
          /\ foreground = GroupOfParent

\* the wait returned an error and the restore step was executed
C1_Witness ==
  /\ pc = "done"
  /\ IsTerminal(stdinTTY)
  /\ InLog("cmd.Wait")
  /\ IsErr(waitErr)
  /\ InLog("TIOCSPGRP parent")
  /\ foreground = GroupOfParent

\* C1 as stated: on every exit path, the start failure included, the restore
\* step has been executed when startAndWait has returned
C1_Original ==
  (pc = "done" /\ InLog("cmd.Start") /\ IsTerminal(stdinTTY)) =>
     InLog("TIOCSPGRP parent")

\* C2 (amended): with an interactive stdin, the transfer step follows the
\* successful start before anything else, and from the transfer step until
\* Wait has returned the foreground process group is the child's; between
\* the start and the transfer step the child is running while the parent
\* still owns the terminal.
C2_ChildOwnsAfterTransfer ==
  (IsTerminal(stdinTTY) /\ child = "running") =>
     /\ pc \in { "transfer", "wait" }
     /\ pc = "wait" => (InLog("TIOCSPGRP child") /\ foreground = "child")
     /\ pc = "transfer" =>
          (~InLog("TIOCSPGRP child") /\ foreground = GroupOfParent)

\* the child is running and owns the terminal
C2_Witness ==
  /\ IsTerminal(stdinTTY)
  /\ child = "running"
  /\ pc = "wait"
  /\ foreground = "child"

\* C2 as stated: no state with the child running and the parent owning the
\* terminal
C2_Original ==
  (IsTerminal(stdinTTY) /\ child = "running") => foreground = "child"

\* the selection statement has been executed with a positional name
NameResolved == pc # "select" /\ Len(opts.Args) > 0

ExactPositions == { k \in 1..Len(instances) : instances[k].ID = opts.Args[1] }

MatchPositions ==
  { k \in 1..Len(instances) : IsSubstring(instances[k].ID, opts.Args[1]) }

\* C3: for every instance list and every name equal to the identifier of an
\* instance of the list, findByName returns that instance with no error and
\* without invoking the picker, however many identifiers contain the name.
C3_ExactMatch ==
  (NameResolved /\ ExactPositions # {}) =>
     /\ selected = instances[NthOf(ExactPositions, 1)]
     /\ selected.ID = opts.Args[1]
     /\ NoError(selectErr)
     /\ shown = <<>>
     /\ ~InLog("pickWithFuzzyFinder")

\* the name is an identifier and a substring of two other identifiers
C3_Witness ==
  /\ NameResolved
  /\ ExactPositions # {}
  /\ Cardinality(MatchPositions) = 3
  /\ selected.ID = opts.Args[1]
  /\ pc = "creds"

\* C4: for every instance list and every name that equals no identifier and
\* is a substring of exactly one identifier, findByName returns that
\* instance with no error and without invoking the picker.
C4_SinglePartialMatch ==
  (NameResolved /\ ExactPositions = {} /\ Cardinality(MatchPositions) = 1) =>
     /\ selected = instances[NthOf(MatchPositions, 1)]
     /\ NoError(selectErr)
     /\ shown = <<>>
     /\ ~InLog("pickWithFuzzyFinder")

\* the name occurs inside one identifier, not at its start, among others
C4_Witness ==
  /\ NameResolved
  /\ ExactPositions = {}
  /\ Cardinality(MatchPositions) = 1
  /\ Len(instances) > 1
  /\ ~HasPrefix(selected.ID, opts.Args[1])
  /\ IsSubstring(selected.ID, opts.Args[1])
  /\ pc = "creds"

\* C5: for every instance list, the empty one included, and every name that
\* is a substring of no identifier, findByName fails with the error
\* "no instance matching '<name>'" carrying the name and returns the zero
\* instance; the picker is not invoked.
C5_NoMatch ==
  (NameResolved /\ MatchPositions = {}) =>
     /\ selectErr = Errorf("no instance matching '%s'", <<opts.Args[1]>>)
     /\ selected = ZeroInstance
     /\ shown = <<>>
     /\ ret = Errorf("selection: %w", <<selectErr>>)
     /\ pc = "done"

\* a name no identifier of a full list contains
C5_Witness ==
  /\ NameResolved
  /\ MatchPositions = {}
  /\ Len(instances) = MaxList
  /\ IsErr(selectErr)
  /\ selectErr.args = <<opts.Args[1]>>

\* C6: when the name equals no identifier and is a substring of two or more
\* identifiers, findByName invokes the picker once, with exactly the
\* instances whose identifier contains the name, in the order of the list;
\* it returns either one of them with no error, or the zero instance with
\* the error of the picker.
C6_MultipleMatches ==
  (NameResolved /\ ExactPositions = {} /\ Cardinality(MatchPositions) > 1) =>
     /\ Len(shown) = 1
     /\ IsSublistAt(shown[1], instances, MatchPositions)
     /\ \/ /\ NoError(selectErr)
           /\ \E k \in MatchPositions : selected = instances[k]
           /\ IsSubstring(selected.ID, opts.Args[1])
        \/ /\ selectErr = ErrAbort
           /\ selected = ZeroInstance

\* two of three instances match and the second of them is picked
C6_Witness ==
  /\ NameResolved
  /\ ExactPositions = {}
  /\ Cardinality(MatchPositions) = 2
  /\ Len(instances) = 3
  /\ NoError(selectErr)
  /\ selected = instances[NthOf(MatchPositions, 2)]

\* the calls and the picker invocations one step adds
NewCalls == SubSeq(log', Len(log) + 1, Len(log'))
NewShown == SubSeq(shown', Len(shown) + 1, Len(shown'))
Calls(c) == \E k \in 1..Len(NewCalls) : NewCalls[k] = c

\* C7: the selection statement of Run follows a strict priority: with a
\* positional name it calls findByName and does not read the last-selection
\* file, also when the "last" flag is set; without a name and with the flag
\* it calls loadLastConnected and no picker; only with neither does Run
\* invoke the picker itself, over the full instance list.
C7_SelectionPriority ==
  [][ pc = "select" =>
        IF Len(opts.Args) > 0
          THEN /\ NewCalls # <<>>
               /\ NewCalls[1] = "findByName"
               /\ ~Calls("loadLastConnected")
               /\ ~Calls("ReadFile last")
               /\ NoError(selectErr') =>
                    IsSubstring(selected'.ID, opts.Args[1])
          ELSE IF opts.LastConnected
                 THEN /\ NewCalls = <<"loadLastConnected", "ReadFile last">>
                      /\ NewShown = <<>>
                      /\ NoError(selectErr') =>
                           /\ lastFiles[LastFileName(opts.Profile)].exists
                           /\ IsSubstring(
                                lastFiles[LastFileName(opts.Profile)].data,
                                selected'.ID)
                 ELSE /\ NewCalls = <<"pickWithFuzzyFinder">>
                      /\ NewShown = <<instances>> ]_vars

\* a name and the flag are both given, a last selection is on file, and the
\* name has decided
C7_Witness ==
  /\ pc = "creds"
  /\ Len(opts.Args) > 0
  /\ opts.LastConnected
  /\ lastFiles[LastFileName(opts.Profile)].exists
  /\ lastFiles[LastFileName(opts.Profile)].data # selected.ID
  /\ InLog("findByName")
  /\ ~InLog("ReadFile last")

\* the cache file of the invocation, and what this build last saved in it
ThisCacheFile == CacheFileName(opts.Profile, cfg.Region)
Fetching == pc \in { "instances", "complete" }
Returned == pc \in { "fetched", "completing" }

\* list is made of the postgres instances of the response, in its order
IsPostgresListOf(list, dbs) ==
  /\ IsSublistAt([k \in 1..Len(list) |-> list[k].ID],
                 [k \in 1..Len(dbs) |-> dbs[k].DBInstanceIdentifier],
                 { k \in 1..Len(dbs) : dbs[k].Engine = "postgres" })
  /\ \A j \in 1..Len(list) :
        LET db == dbs[NthOf({ k \in 1..Len(dbs) :
                                 dbs[k].Engine = "postgres" }, j)]
        IN  /\ list[j].Host = db.Endpoint.Address
            /\ list[j].Port = db.Endpoint.Port
            /\ list[j].Size = db.DBInstanceClass
            /\ list[j].Version = db.EngineVersion
            /\ list[j].SourceID = db.ReadReplicaSourceDBInstanceIdentifier

\* C8: cache round trip: after a refresh has saved a list for a profile and
\* region, a GetInstancesWithCache for the same profile and region less than
\* an hour later returns a list equal to the saved one, element by element
\* in the same order, with no error, without calling DescribeDBInstances and
\* without touching the file.
C8_CacheRoundTrip ==
  [][ (/\ Fetching
       /\ saved[ThisCacheFile].valid
       /\ now - saved[ThisCacheFile].at < Hour) =>
        /\ pc' \in { "fetched", "completing" }
        /\ instances' = saved[ThisCacheFile].list
        /\ NoError(fetchErr')
        /\ NewCalls = <<"ReadFile cache">>
        /\ ~Calls("DescribeDBInstances")
        /\ cacheFiles' = cacheFiles ]_vars

\* a list with a read replica, saved earlier, has been served from the file
C8_Witness ==
  /\ Returned
  /\ log = <<"ReadFile cache">>
  /\ saved[ThisCacheFile].valid
  /\ now > saved[ThisCacheFile].at
  /\ now - saved[ThisCacheFile].at < Hour
  /\ instances = saved[ThisCacheFile].list
  /\ \E k \in 1..Len(instances) : instances[k].SourceID # EmptyStr

\* C9: cache expiry: a cache file whose version differs from the current
\* schema version, or that was modified an hour or more ago, is not served:
\* GetInstancesWithCache calls DescribeDBInstances as it does when there is
\* no file, and what it returns is the failure of that call or the postgres
\* instances of its response, with which the file is overwritten.
C9_CacheExpiry ==
  [][ (/\ Fetching
       /\ cacheFiles[ThisCacheFile].exists
       /\ UnmarshalOK(cacheFiles[ThisCacheFile].data)
       /\ \/ cacheFiles[ThisCacheFile].data.version # CacheVersion
          \/ now - cacheFiles[ThisCacheFile].mtime >= Hour) =>
        /\ Len(NewCalls) >= 2
        /\ NewCalls[1] = "ReadFile cache"
        /\ NewCalls[2] = "DescribeDBInstances"
        /\ \/ /\ pc' \in { "fetched", "completing" }
              /\ IsErr(fetchErr')
              /\ instances' = <<>>
              /\ cacheFiles' = cacheFiles
           \/ /\ pc' \in { "fetched", "completing" }
              /\ NoError(fetchErr')
              /\ IsPostgresListOf(instances', described')
              /\ cacheFiles'[ThisCacheFile].mtime = now
              /\ cacheFiles'[ThisCacheFile].data.version = CacheVersion
           \/ /\ pc' = "panic"
              /\ cacheFiles' = cacheFiles ]_vars

\* a list saved exactly an hour ago was on file, and the response, which
\* differs from it, has been returned
C9_Witness ==
  /\ Returned
  /\ found.exists
  /\ found.data.version = CacheVersion
  /\ now - found.mtime = Hour
  /\ InLog("DescribeDBInstances")
  /\ NoError(fetchErr)
  /\ instances # <<>>
  /\ instances # Unmarshal(found.data).Instances
  /\ cacheFiles[ThisCacheFile].mtime = now

\* C10: when a refresh succeeds, the list returned and the list in the cache
\* file are the same: the postgres instances of the response, in response
\* order, under the current schema version; no instance of another engine is
\* in either; and the file is written when the list is returned.
C10_RefreshFiltersAndPersists ==
  (Returned /\ InLog("WriteFile cache")) =>
     /\ NoError(fetchErr)
     /\ IsPostgresListOf(instances, described)
     /\ cacheFiles[ThisCacheFile].exists
     /\ cacheFiles[ThisCacheFile].mtime = now
     /\ cacheFiles[ThisCacheFile].data.shape = "object"
     /\ cacheFiles[ThisCacheFile].data.version = CacheVersion
     /\ Len(cacheFiles[ThisCacheFile].data.instances.items) = Len(instances)
     /\ \A k \in 1..Len(instances) :
           LET item == cacheFiles[ThisCacheFile].data.instances.items[k]
           IN  /\ item.id = instances[k].ID
               /\ item.host = instances[k].Host
               /\ item.size = instances[k].Size
               /\ item.port = instances[k].Port
               /\ item.version = instances[k].Version
               /\ item.source_id = instances[k].SourceID
     /\ \A k \in 1..Len(described) :
           described[k].Engine # "postgres" =>
              /\ \A j \in 1..Len(instances) :
                    instances[j].ID # described[k].DBInstanceIdentifier
              /\ \A j \in 1..Len(instances) :
                    cacheFiles[ThisCacheFile].data.instances.items[j].id
                      # described[k].DBInstanceIdentifier

\* a response with an instance of another engine in front of a postgres
\* instance has been filtered and saved
C10_Witness ==
  /\ Returned
  /\ InLog("WriteFile cache")
  /\ Len(described) = 2
  /\ described[1].Engine # "postgres"
  /\ Len(instances) = 1
  /\ cacheFiles[ThisCacheFile].data.instances.items[1].id = instances[1].ID

\* the colon-delimited fields of a reference, counted from zero
ColonsOf(s) == { i \in 1..Len(s) : s[i] = ":" }
FieldCount(s) == Cardinality(ColonsOf(s)) + 1
FieldAt(s, n) ==
  SubSeq(s,
         IF n = 0 THEN 1 ELSE NthOf(ColonsOf(s), n) + 1,
         IF n < Cardinality(ColonsOf(s))
           THEN NthOf(ColonsOf(s), n + 1) - 1
           ELSE Len(s))

\* the reference starts with "arn:aws:rds:"
IsResourceName(s) ==
  /\ Len(s) >= 6
  /\ s[1] = "arn" /\ s[2] = ":" /\ s[3] = "aws" /\ s[4] = ":"
  /\ s[5] = "rds" /\ s[6] = ":"

\* the secret name for a credential target
SecretNameFor(target) == <<"root/">> \o target \o <<"/psql">>

\* getRDSCredentials has issued its lookup for the selected instance
LookedUp == Len(secretCalls) = 1 /\ InLog("GetSecretValue")

\* C11: for every instance whose replication-source reference starts with
\* the resource-name prefix, the credential target is the field at
\* zero-based index 6 of the reference when it has at least 7
\* colon-delimited fields, and the instance's own identifier when it has
\* fewer.
C11_ResourceNameTarget ==
  (LookedUp /\ IsResourceName(selected.SourceID)) =>
     secretCalls[1].SecretId =
       IF FieldCount(selected.SourceID) >= 7
         THEN SecretNameFor(FieldAt(selected.SourceID, 6))
         ELSE SecretNameFor(selected.ID)

\* a resource name of eight fields, whose field 6 is neither the last field
\* nor the instance's identifier
C11_Witness ==
  /\ LookedUp
  /\ IsResourceName(selected.SourceID)
  /\ FieldCount(selected.SourceID) = 8
  /\ FieldAt(selected.SourceID, 6) # FieldAt(selected.SourceID, 7)
  /\ FieldAt(selected.SourceID, 6) # selected.ID
  /\ secretCalls[1].SecretId = SecretNameFor(FieldAt(selected.SourceID, 6))

\* C12: for every instance with an empty replication-source reference the
\* credential target is the instance's own identifier, and for every
\* instance whose non-empty reference lacks the resource-name prefix the
\* target is the reference itself, unchanged.
C12_PlainSourceTarget ==
  (LookedUp /\ ~IsResourceName(selected.SourceID)) =>
     secretCalls[1].SecretId =
       IF selected.SourceID = EmptyStr
         THEN SecretNameFor(selected.ID)
         ELSE SecretNameFor(selected.SourceID)

\* a plain reference that differs from the identifier has been followed
C12_Witness ==
  /\ LookedUp
  /\ selected.SourceID # EmptyStr
  /\ ~IsResourceName(selected.SourceID)
  /\ selected.SourceID # selected.ID
  /\ secretCalls[1].SecretId = SecretNameFor(selected.SourceID)

\* the credential target of the selected instance, by the rules of C11, C12
ExpectedTarget ==
  IF selected.SourceID = EmptyStr THEN selected.ID
  ELSE IF ~IsResourceName(selected.SourceID) THEN selected.SourceID
  ELSE IF FieldCount(selected.SourceID) >= 7
    THEN FieldAt(selected.SourceID, 6)
    ELSE selected.ID

\* C13: for every selected instance whose credential target differs from
\* its own identifier, the one lookup issued is for "root/<target>/psql" in
\* the home region loadAWSConfig returned, not in the operating region of
\* cfg, whatever region override was given.
C13_LookupInHomeRegion ==
  (LookedUp /\ ExpectedTarget # selected.ID) =>
     /\ secretCalls[1].SecretId = SecretNameFor(ExpectedTarget)
     /\ secretCalls[1].Region = homeRegion
     /\ cfg.Region # homeRegion => secretCalls[1].Region # cfg.Region

\* a replica listed under a region override, looked up in the home region
C13_Witness ==
  /\ LookedUp
  /\ ExpectedTarget # selected.ID
  /\ IsResourceName(selected.SourceID)
  /\ opts.Region # ""
  /\ cfg.Region = opts.Region
  /\ cfg.Region # homeRegion
  /\ secretCalls[1].Region = homeRegion

\* loadAWSConfig has returned without error
ConfigLoaded == pc = "instances" /\ InLog("loadAWSConfig")

\* C14 (amended): the home region returned by loadAWSConfig is the region of
\* a configuration loaded for the profile with the explicit region
\* "ap-south-1": it is "ap-south-1" for every profile, whatever region the
\* profile is configured with, and it does not depend on the region option
\* passed to the connect operation; only the operating configuration
\* follows the region option, or the profile's region when none is given.
C14_HomeRegionIsFixed ==
  ConfigLoaded =>
     /\ homeRegion = "ap-south-1"
     /\ cfg.Region = IF opts.Region # "" THEN opts.Region
                     ELSE ProfileRegion[opts.Profile]

\* a profile configured with another region, no region option given
C14_Witness ==
  /\ ConfigLoaded
  /\ opts.Region = ""
  /\ ProfileRegion[opts.Profile] # "ap-south-1"
  /\ cfg.Region = ProfileRegion[opts.Profile]
  /\ homeRegion = "ap-south-1"

\* C14 as stated: the home region is the region the profile is configured
\* with, so it differs between profiles configured with different regions
C14_Original ==
  ConfigLoaded => homeRegion = ProfileRegion[opts.Profile]

\* C15 as stated: every failure of getRDSCredentials, of the lookup or of
\* parsing the payload, is returned as the credential-fetch error that
\* carries the secret name and the region, after exactly one lookup.
C15_Original ==
  (pc = "done" /\ ret.fmt = "secrets: %w") =>
     /\ Len(secretCalls) = 1
     /\ ret.args[1].fmt = "failed to fetch secret '%s' in %s: %w"
     /\ ret.args[1].args[1] = secretCalls[1].SecretId
     /\ ret.args[1].args[2] = secretCalls[1].Region

\* the selection statement has been executed in "last connected" mode
LastResolved == pc # "select" /\ Len(opts.Args) = 0 /\ opts.LastConnected

ThisLastFile == lastFiles[LastFileName(opts.Profile)]

\* the content of the last-selection file without surrounding white space
NonSpaces(s) == { i \in 1..Len(s) : s[i] \notin { " ", "\t", "\n" } }
Recorded ==
  IF NonSpaces(ThisLastFile.data) = {} THEN EmptyStr
  ELSE SubSeq(ThisLastFile.data,
              NthOf(NonSpaces(ThisLastFile.data), 1),
              NthOf(NonSpaces(ThisLastFile.data),
                    Cardinality(NonSpaces(ThisLastFile.data))))

RecordedPositions == { k \in 1..Len(instances) : instances[k].ID = Recorded }

\* C17: loadLastConnected fails and returns no instance when no
\* last-selection record exists for the profile, with an error that names
\* the profile, and when the recorded identifier is the identifier of no
\* instance of the list, with an error that names the recorded identifier.
C17_LastNotFound ==
  /\ (LastResolved /\ ~ThisLastFile.exists) =>
        /\ selectErr = Errorf("no history found for profile '%s'",
                              <<opts.Profile>>)
        /\ selected = ZeroInstance
        /\ pc = "done"
  /\ (LastResolved /\ ThisLastFile.exists /\ RecordedPositions = {}) =>
        /\ selectErr =
             Errorf("last used instance '%s' not found in current profile",
                    <<Recorded>>)
        /\ selected = ZeroInstance
        /\ pc = "done"

\* the recorded identifier is part of the identifiers listed, and is none
\* of them
C17_Witness ==
  /\ LastResolved
  /\ ThisLastFile.exists
  /\ RecordedPositions = {}
  /\ Len(instances) = 2
  /\ \A k \in 1..Len(instances) : IsSubstring(instances[k].ID, Recorded)
  /\ IsErr(selectErr)
  /\ selectErr.args = <<Recorded>>
  /\ selected = ZeroInstance

\* what the most recent saveLastID for the profile saved
ThisLastSaved == lastSaved[LastFileName(opts.Profile)]

\* C16: last-selection round trip: when saveLastID has saved X for the
\* profile, no later save for the profile has followed, and X is the
\* identifier of an instance of the list, loadLastConnected returns the
\* instance whose identifier is X, with no error; X is what the most recent
\* save saved, whatever earlier saves had left in the file.
C16_LastRoundTrip ==
  [][ (/\ pc = "select"
       /\ Len(opts.Args) = 0
       /\ opts.LastConnected
       /\ ThisLastSaved.valid
       /\ \E k \in 1..Len(instances) : instances[k].ID = ThisLastSaved.id) =>
        /\ NoError(selectErr')
        /\ selected'.ID = ThisLastSaved.id
        /\ \E k \in 1..Len(instances) : selected' = instances[k]
        /\ NewShown = <<>>
        /\ pc' = "creds" ]_vars

\* the identifier loaded is one that a save wrote over another identifier
C16_Witness ==
  /\ pc = "creds"
  /\ Len(opts.Args) = 0
  /\ opts.LastConnected
  /\ ThisLastSaved.valid
  /\ ThisLastSaved.replaced
  /\ InLog("loadLastConnected")
  /\ NoError(selectErr)
  /\ selected.ID = ThisLastSaved.id
  /\ Len(instances) > 1

\* the client has been chosen and not yet been started, is running, or has
\* ended
Launched ==
  \/ pc \in { "start", "transfer", "wait", "restore", "native", "repl" }
  \/ pc = "done" /\ (InLog("executeExternal") \/ InLog("runNativeConnect"))

\* C18: in every run the last-selection file is written, with the selected
\* identifier, exactly when the selection and the credential fetch have both
\* succeeded; it is written before the external or native client is
\* started, and no later step of the run changes it, whether the client
\* fails to start, exits with failure or succeeds.
C18_LastSavedBeforeLaunch ==
  [][ /\ (pc = "creds" /\ pc' = "save") <=>
            (pc = "creds" /\ NoError(selectErr) /\ creds' \in SecretCreds)
      /\ pc = "save" =>
            /\ NoError(selectErr)
            /\ creds \in SecretCreds
            /\ lastFiles'[LastFileName(opts.Profile)].exists
            /\ lastFiles'[LastFileName(opts.Profile)].data = selected.ID
            /\ pc' \in { "start", "native" }
            /\ child' = "none"
            /\ printed' = printed
      /\ pc # "save" => lastFiles' = lastFiles
      /\ pc' = "save" => pc = "creds"
      /\ Launched' => ThisLastFile' = [exists |-> TRUE, data |-> selected'.ID]
    ]_vars

\* the external client has exited with failure and the file holds the
\* selected identifier
C18_Witness ==
  /\ pc = "done"
  /\ InLog("WriteFile last")
  /\ InLog("cmd.Wait")
  /\ IsErr(waitErr)
  /\ ThisLastFile.exists
  /\ ThisLastFile.data = selected.ID

\* Run has returned the error of the selection
SelectionFailed == pc = "done" /\ ret.fmt = "selection: %w"

\* C19: when the selection of Run fails (no match, no last-selection
\* history, a stale last selection, the picker cancelled), Run returns the
\* error wrapped as "selection: ..."; the selection step changes neither the
\* instance cache files nor the last-selection files, and the run issues no
\* credential lookup and launches no client.
C19_SelectionFailureLeavesCache ==
  [][ /\ (pc = "select" /\ IsErr(selectErr')) =>
            /\ pc' = "done"
            /\ ret' = Errorf("selection: %w", <<selectErr'>>)
            /\ selectErr'.fmt \in
                 { "no instance matching '%s'",
                   "no history found for profile '%s'",
                   "last used instance '%s' not found in current profile",
                   "abort" }
            /\ selected' = ZeroInstance
            /\ cacheFiles' = cacheFiles
            /\ lastFiles' = lastFiles
      /\ pc = "select" => (IsErr(selectErr') <=> pc' = "done")
      /\ SelectionFailed =>
            /\ secretCalls = <<>>
            /\ ~InLog("GetSecretValue")
            /\ ~InLog("WriteFile last")
            /\ ~InLog("executeExternal")
            /\ ~InLog("runNativeConnect")
            /\ cmd = NoCmd
            /\ child = "none"
            /\ pc' = "idle"
            /\ cacheFiles' = cacheFiles
            /\ lastFiles' = lastFiles ]_vars

\* a last selection that the list fetched for another region does not hold
C19_Witness ==
  /\ SelectionFailed
  /\ selectErr.fmt = "last used instance '%s' not found in current profile"
  /\ ThisLastFile.exists
  /\ instances # <<>>
  /\ cacheFiles[ThisCacheFile].exists
  /\ secretCalls = <<>>

\* C20: no outcome of the VPN check (client absent, client failing, output
\* that is no JSON list, the required VPN not connected, no active
\* connection) makes Run return: whatever CheckVPNWithPritunl returned, the
\* next statement is loadAWSConfig with nothing returned and no file
\* changed, and Run then goes on to GetInstancesWithCache unless loading the
\* configuration itself fails.
C20_VPNCheckNeverAborts ==
  [][ /\ pc = "vpn" =>
            /\ pc' = "config"
            /\ ret' = ret
            /\ NewCalls = <<"CheckVPNWithPritunl">>
            /\ vpnErr'.fmt \in
                 { "", "required VPN profile '%s' is not connected",
                   "no active VPN connection found" }
            /\ UNCHANGED <<cacheFiles, lastFiles>>
      /\ pc = "config" =>
            /\ NewCalls = <<"loadAWSConfig">>
            /\ \/ /\ pc' = "instances"
                  /\ ret' = ret
               \/ /\ pc' = "done"
                  /\ ret'.fmt \in { "load AWS config (home): %w",
                                    "load AWS config: %w" } ]_vars

\* the check has found no active connection for a profile without a
\* required VPN, and Run is at loadAWSConfig
C20_Witness ==
  /\ pc = "config"
  /\ vpnErr.fmt = "no active VPN connection found"
  /\ opts.Profile \notin DOMAIN vpnProfileMapping
  /\ NoError(ret)
  /\ log = <<"CheckVPNWithPritunl">>

\* the decimal numeral d stands for the number n
RECURSIVE NumeralValue(_)
NumeralValue(d) ==
  IF d = <<>> THEN 0
  ELSE 10 * NumeralValue(SubSeq(d, 1, Len(d) - 1))
       + (CHOOSE k \in 0..9 : Digits[k + 1] = d[Len(d)])

\* the credential pairs that differ from c in the password at most
SameButPassword(c) == { d \in SecretCreds : d.Username = c.Username }

\* C21: the argument vector of the external client holds the host, the port,
\* the user name and the database name and nothing else, and does not depend
\* on the password: any credential pair that differs from the fetched one in
\* the password only yields the same vector, no argument is the password, and
\* the password is in the PGPASSWORD variable of the child's environment.
C21_ArgsIndependentOfPassword ==
  cmd # NoCmd =>
    /\ Len(cmd.Args) = 8
    /\ <<cmd.Args[1], cmd.Args[3], cmd.Args[5], cmd.Args[7]>>
         = <<"-h", "-p", "-U", "-d">>
    /\ cmd.Args[2] = selected.Host
    /\ NumeralValue(cmd.Args[4]) = selected.Port
    /\ cmd.Args[6] = creds.Username
    /\ cmd.Args[8] = "postgres"
    /\ \A k \in 1..Len(cmd.Args) : cmd.Args[k] # creds.Password
    /\ \A d \in SameButPassword(creds) :
          buildConnectArgs(selected, d) = cmd.Args
    /\ cmd.PGPASSWORD = creds.Password

\* the external client runs with the second of two passwords of one user
C21_Witness ==
  /\ child = "running"
  /\ cmd.Path \in { "pgcli", "psql" }
  /\ creds.Password = "pw2"
  /\ cmd.PGPASSWORD = "pw2"
  /\ Cardinality(SameButPassword(creds)) = 2

\* the positions of the log where a client is launched
Launches ==
  { k \in 1..Len(log) : log[k] \in { "executeExternal", "runNativeConnect" } }

\* C22: Run launches pgcli whenever LookPath finds it, psql only when pgcli
\* was not found and psql was, and runNativeConnect only when neither was
\* found; a run never launches twice, and a run that returned nil has
\* launched exactly one of the three.
C22_ClientPriority ==
  /\ Cardinality(Launches) <= 1
  /\ (pc = "done" /\ NoError(ret)) => Cardinality(Launches) = 1
  /\ Launches # {} =>
       /\ InLog("LookPath pgcli: found") =>
            /\ cmd.Path = "pgcli"
            /\ InLog("executeExternal")
            /\ ~InLog("LookPath psql: found")
            /\ ~InLog("LookPath psql: not found")
       /\ InLog("LookPath pgcli: not found") /\ InLog("LookPath psql: found") =>
            /\ cmd.Path = "psql"
            /\ InLog("executeExternal")
       /\ InLog("LookPath pgcli: not found")
            /\ InLog("LookPath psql: not found") =>
            /\ cmd = NoCmd
            /\ InLog("runNativeConnect")
       /\ InLog("LookPath pgcli: found") \/ InLog("LookPath pgcli: not found")
       /\ InLog("runNativeConnect") =>
            /\ InLog("LookPath pgcli: not found")
            /\ InLog("LookPath psql: not found")
       /\ cmd.Path = "psql" => InLog("LookPath pgcli: not found")

\* psql has run and exited, after pgcli was not found
C22_Witness ==
  /\ pc = "done"
  /\ NoError(ret)
  /\ cmd.Path = "psql"
  /\ child = "exited"
  /\ InLog("LookPath pgcli: not found")
  /\ InLog("LookPath psql: found")

\* C23: with several invocations running GetInstancesWithCache at once on
\* one cache file and no locking, an invocation that returns a list returns
\* its own refresh or, from the cache, a list that some refresh produced,
\* whole: never a list put together from parts of different refreshes.
C23_Original ==
  \A p \in DOMAIN peers :
     (peers[p].pc = "returned" /\ NoError(peers[p].err) /\ peers[p].fromCache)
        => peers[p].instances \in refreshed

\* the native client could not open the connection, or its ping failed
NativeConnectFailed == printed \in { "Connection Error", "Connection Failed" }

\* C24: a run in which the discovery, the selection, the credential fetch or
\* the native connection (sql.Open, db.Ping) failed ends with a non-zero exit
\* status; only the errors of single queries in the native read loop do not.
C24_Original ==
  (/\ pc = "done"
   /\ \/ IsErr(fetchErr)
      \/ IsErr(selectErr)
      \/ InLog("GetSecretValue") /\ ~InLog("WriteFile last")
      \/ NativeConnectFailed)
    => ExitStatus(pc, ret) # 0

\* C25: the last selection is kept per profile and region: the record a
\* "last connected" resolution reads in a run for one region was saved by a
\* connection of that profile in the same region, so a connection made in
\* another region has not changed it.
C25_Original ==
  (/\ InLog("ReadFile last")
   /\ ~InLog("WriteFile last")
   /\ ThisLastSaved.valid)
    => ThisLastSaved.region = cfg.Region

\* C26: a GetInstancesWithCache that serves the cache file leaves the file
\* as it is, modification time included, and what it serves is the list a
\* refresh saved less than an hour before; once an hour has passed since the
\* refresh that saved the file, however often the file was served meanwhile,
\* the next invocation calls DescribeDBInstances.
C26_HitKeepsFreshness ==
  [][ Fetching =>
        /\ NewCalls = <<"ReadFile cache">> =>
              /\ cacheFiles' = cacheFiles
              /\ saved[ThisCacheFile].valid
              /\ saved[ThisCacheFile].at = cacheFiles[ThisCacheFile].mtime
              /\ now - saved[ThisCacheFile].at < Hour
              /\ instances' = saved[ThisCacheFile].list
        /\ (/\ saved[ThisCacheFile].valid
            /\ now - saved[ThisCacheFile].at >= Hour) =>
              /\ Len(NewCalls) >= 2
              /\ NewCalls[2] = "DescribeDBInstances" ]_vars

\* a list was served from the file, the file kept the time of its refresh,
\* and an hour after that refresh the next invocation has called
\* DescribeDBInstances (which failed, so the file is still the old one)
C26_Witness ==
  /\ Returned
  /\ InLog("DescribeDBInstances")
  /\ IsErr(fetchErr)
  /\ saved[ThisCacheFile].valid
  /\ saved[ThisCacheFile].hits >= 1
  /\ cacheFiles[ThisCacheFile].mtime = saved[ThisCacheFile].at
  /\ now - saved[ThisCacheFile].at = Hour

\* C27: a refresh ends, for every response of DescribeDBInstances, with
\* GetInstancesWithCache returning an error or the list of the postgres
\* instances of the response; a postgres instance without endpoint in the
\* response does not make it crash.
C27_Original ==
  [][ (Fetching /\ Calls("DescribeDBInstances")) =>
        /\ pc' \in { "fetched", "completing" }
        /\ \/ IsErr(fetchErr')
           \/ /\ Len(instances') =
                   Cardinality({ k \in 1..Len(described') :
                                    described'[k].Engine = "postgres" })
              /\ IsPostgresListOf(instances', described') ]_vars

=============================================================================
